---- MODULE Spec2Model ----
(***************************************************************************)
(* A state-machine model of the medico24 backend: the role-record          *)
(* lifecycle kept by the database triggers of migration 008, the push      *)
(* token registry and notification fan-out of NotificationService, and the *)
(* appointment operations of AppointmentService.                           *)
(*                                                                         *)
(* Each subsystem has its own next-state relation and specification        *)
(* (SpecRole, SpecNotif, SpecAppt); the variables of the other subsystems  *)
(* stay unchanged under it.                                                *)
(***************************************************************************)
EXTENDS Integers, FiniteSets, Sequences, TLC

\* ------------------------------------------------------------------------
\* Bounds of the model
\* ------------------------------------------------------------------------
MaxUsers == 2
MaxPharmacies == 1
MaxRoleRows == 3         \* satellite rows inserted for one user
MaxTokenValues == 3      \* distinct FCM token strings a client may present
MaxSendTokenValues == 2  \* ... of them presented while notifications are sent
MaxNotifications == 1    \* notifications created in one behaviour
MaxAppointments == 1     \* appointments created in one behaviour
MaxClock == 2            \* the last instant of the clock
MaxCacheValue == 1       \* distinct values a client stores under one key
MaxVersion == 2          \* contents a cached entity's row goes through
MaxClinics == 2          \* clinics a doctor can be associated with
MaxAssociations == 3     \* doctor_clinics rows inserted in one behaviour
MaxCallers == 2          \* calls of check_rate_limit in progress at a time
MaxSessions == 2         \* register-token requests in progress at a time
RateLimit == 2           \* the limit argument of the calls

\* SQL NULL for id-valued and timestamp-valued columns (ids and times are >= 1)
NULL == 0

\* SQL NULL for text columns
NullText == "NULL"

UserIds == 1..MaxUsers
PharmacyIds == 1..MaxPharmacies
TokenValues == 1..MaxTokenValues

\* push_tokens_platform_check
Platforms == {"android", "ios", "web"}

\* AppointmentStatus / appointments_status_check
AppointmentStatus ==
    {"scheduled", "confirmed", "rescheduled", "cancelled", "completed", "no_show"}

\* users.role is free text; these are the values the triggers branch on
Roles == {"patient", "doctor", "pharmacy", "admin"}

VARIABLES
    \* ---- role-record lifecycle ----
    users,            \* users table: id -> role, for the rows that exist
    nextUserId,       \* gen_random_uuid(): ids are fresh, never reused
    patients,         \* patients.user_id values of the rows that exist
    doctors,          \* doctors.user_id values of the rows that exist
    pharmacy_staff,   \* pharmacy_staff rows: [user_id, pharmacy_id]
    admins,           \* admins.user_id values of the rows that exist
    roleRowSerial,    \* user id -> how many satellite rows were inserted for
                      \*   the user: the generated id of the user's newest row
    doctorsUserIdCol, \* TRUE until migration 014 drops doctors.user_id
    userCache,        \* cache store: key user:{id} -> cached role, or "miss"
    roleResult,       \* what the last user operation returned / raised
    \* ---- push tokens and notifications ----
    push_tokens,      \* rows [id, user_id, fcm_token, platform, is_active]
    notifications,    \* id -> [user_id, status, failure_reason, delivered_at]
    nextNotifId,      \* gen_random_uuid() of notifications.id
    notification_deliveries,
                      \* rows [notification_id, push_token_id, delivery_status,
                      \*       failure_reason]
    sends,            \* notification id -> the send_to_user call that made it:
                      \*   pc, token_map, the messaging API's answer, the result
    tokenResult,      \* what the last push-token operation was / returned
    \* ---- appointments ----
    appointments,     \* id -> [patient_id, status, notes, updated_at,
                      \*        cancelled_at, deleted_at, valid], for the rows
                      \*   that exist; valid: the row's fields pass the
                      \*   validators of AppointmentResponse
    nextApptId,       \* gen_random_uuid() of appointments.id
    now,              \* the clock read by datetime.utcnow() / NOW()
    apptResult,       \* the last appointment request and its response
    \* ---- cache store ----
    redis,            \* key -> [val, ttl]: the stored value (NULL when the key
                      \*   is absent) and whether the key carries an expiry
    keyHistory,       \* key -> what happened to it since it was last set
    cacheResult,      \* the last CacheManager call and what it returned
    \* ---- cached entities ----
    entityDb,         \* kind -> [ver, deleted]: the row of the user, clinic or
                      \*   doctor; ver counts its contents, 0 before the insert
    svcResult,        \* the last service call on a cached entity
    \* ---- notification endpoints ----
    apiResult,        \* the last request to a notification endpoint and the
                      \*   HTTP status it was answered with
    \* ---- doctor-clinic associations ----
    doctor_clinics,   \* rows [id, doctor_id, clinic_id, end_date, status]
    nextAssocId,      \* gen_random_uuid() of doctor_clinics.id
    assocResult,      \* the last association operation and how it ended
    \* ---- refresh tokens ----
    refreshTokens,    \* token -> [issued, expired, loggedOut]: whether it was
                      \*   minted, whether its exp has passed, whether a logout
                      \*   presenting it has returned
    authResult,       \* the last /auth request and the status it got
    \* ---- concurrent token registrations ----
    regTx,            \* session -> the register_token call it runs: pc, the
                      \*   request, the rows it locked, its uncommitted writes
    \* ---- account deactivation ----
    userRow,          \* the users row of user U: [is_active]
    userKey,          \* the cache key user:{U}: "miss", or the is_active of
                      \*   the cached copy, "active" / "inactive"
    authReqs,         \* session -> the request of U it serves: pc, kind, what
                      \*   its database read saw, and whether it began after
                      \*   a deactivation had returned
    deactivation,     \* [returned, storeRaised]: a deactivation of U has
                      \*   committed and returned; the cache store has raised
    deactResult,      \* the last request of U that was answered
    \* ---- rate limiter ----
    rateKey,          \* the counter key: [val, ttl], val NULL when absent
    rateCalls,        \* caller -> [pc, current]: where its check_rate_limit
                      \*   call stands and what its GET read
    rateWindow,       \* [allowed, raised]: calls answered True since the key
                      \*   last expired, and whether the store raised since
                      \*   then
    rateResult        \* the last call that returned, and its answer

apptVars == <<appointments, nextApptId, now, apptResult>>

cacheVars == <<redis, keyHistory, cacheResult>>

entityVars == <<entityDb, svcResult>>

apiVars == <<apiResult>>

assocVars == <<doctor_clinics, nextAssocId, assocResult>>

authVars == <<refreshTokens, authResult>>

rateVars == <<rateKey, rateCalls, rateWindow, rateResult>>

regVars == <<regTx>>

deactVars == <<userRow, userKey, authReqs, deactivation, deactResult>>

tokenVars == <<push_tokens, tokenResult>>

notifVars == <<notifications, nextNotifId, notification_deliveries, sends>>

roleVars == <<users, nextUserId, patients, doctors, pharmacy_staff, admins,
              roleRowSerial, doctorsUserIdCol, userCache, roleResult>>

\* ------------------------------------------------------------------------
\* The role tables as one database value, so that a transaction can be
\* computed statement by statement and committed or rolled back as a whole.
\* err is "ok" or the name of the error the statement raised.
\* ------------------------------------------------------------------------
RoleDb ==
    [users |-> users, patients |-> patients, doctors |-> doctors,
     pharmacy_staff |-> pharmacy_staff, admins |-> admins,
     serial |-> roleRowSerial]

Ok(db) == [db |-> db, err |-> "ok"]
Raise(db, e) == [db |-> db, err |-> e]

\* INSERT INTO patients (user_id): user_id is UNIQUE
InsertPatient(db, uid) ==
    IF uid \in db.patients
    THEN Raise(db, "IntegrityError")
    ELSE Ok([db EXCEPT !.patients = @ \cup {uid}, !.serial[uid] = @ + 1])

\* INSERT INTO admins (user_id): user_id is UNIQUE
InsertAdmin(db, uid) ==
    IF uid \in db.admins
    THEN Raise(db, "IntegrityError")
    ELSE Ok([db EXCEPT !.admins = @ \cup {uid}, !.serial[uid] = @ + 1])

\* INSERT INTO doctors (user_id): user_id is UNIQUE; after migration 014 the
\* column no longer exists and the statement is an error
InsertDoctor(db, uid) ==
    IF ~doctorsUserIdCol
    THEN Raise(db, "ProgrammingError")
    ELSE IF uid \in db.doctors
         THEN Raise(db, "IntegrityError")
         ELSE Ok([db EXCEPT !.doctors = @ \cup {uid}, !.serial[uid] = @ + 1])

\* INSERT INTO pharmacy_staff (user_id, pharmacy_id): pharmacy_id is
\* NOT NULL, user_id is UNIQUE
InsertPharmacyStaff(db, uid, pid) ==
    IF pid = NULL
    THEN Raise(db, "IntegrityError")
    ELSE IF \E r \in db.pharmacy_staff : r.user_id = uid
         THEN Raise(db, "IntegrityError")
         ELSE Ok([db EXCEPT !.pharmacy_staff =
                      @ \cup {[user_id |-> uid, pharmacy_id |-> pid]},
                            !.serial[uid] = @ + 1])

\* Mutant: the trigger swallows a failed insert (EXCEPTION WHEN OTHERS)
InsertRoleRecord_Swallow(db, uid, role) ==
    LET r == CASE role = "patient"  -> InsertPatient(db, uid)
               [] role = "doctor"   -> InsertDoctor(db, uid)
               [] role = "admin"    -> InsertAdmin(db, uid)
               [] role = "pharmacy" -> InsertPharmacyStaff(db, uid, NULL)
               [] OTHER             -> Ok(db)
    IN  Ok(r.db)

\* The INSERT branch shared by both trigger functions
InsertRoleRecord(db, uid, role) ==
    CASE role = "patient"  -> InsertPatient(db, uid)
      [] role = "doctor"   -> InsertDoctor(db, uid)
      [] role = "admin"    -> InsertAdmin(db, uid)
      [] role = "pharmacy" -> InsertPharmacyStaff(db, uid, NULL)
      [] OTHER             -> Ok(db)

\* trigger_create_user_role: AFTER INSERT ON users
create_user_role_record(db, uid, role) == InsertRoleRecord(db, uid, role)

\* The DELETE branch of handle_user_role_change
DeleteRoleRecord(db, uid, role) ==
    CASE role = "patient"  -> Ok([db EXCEPT !.patients = @ \ {uid}])
      [] role = "doctor"   ->
            IF ~doctorsUserIdCol
            THEN Raise(db, "ProgrammingError")
            ELSE Ok([db EXCEPT !.doctors = @ \ {uid}])
      [] role = "pharmacy" ->
            Ok([db EXCEPT !.pharmacy_staff = {r \in @ : r.user_id # uid}])
      [] role = "admin"    -> Ok([db EXCEPT !.admins = @ \ {uid}])
      [] OTHER             -> Ok(db)

\* Mutant: the role change forgets to delete the old role's record
handle_user_role_change_NoDelete(db, uid, oldRole, newRole) ==
    IF oldRole # newRole
    THEN InsertRoleRecord(db, uid, newRole)
    ELSE Ok(db)

\* trigger_handle_role_change: AFTER UPDATE OF role ON users
handle_user_role_change(db, uid, oldRole, newRole) ==
    IF oldRole # newRole
    THEN LET d == DeleteRoleRecord(db, uid, oldRole)
         IN  IF d.err # "ok" THEN d ELSE InsertRoleRecord(d.db, uid, newRole)
    ELSE Ok(db)

\* UPDATE pharmacy_staff SET pharmacy_id = :pid WHERE user_id = :uid
SetPharmacyId(db, uid, pid) ==
    [db EXCEPT !.pharmacy_staff =
        {IF r.user_id = uid THEN [r EXCEPT !.pharmacy_id = pid] ELSE r : r \in @}]

\* users.insert() and the AFTER INSERT trigger, one statement
InsertUser(db, uid, role) ==
    create_user_role_record(
        [db EXCEPT !.users = [u \in DOMAIN @ \cup {uid} |->
                                 IF u = uid THEN role ELSE @[u]]],
        uid, role)

\* Mutant: the trigger does not compare OLD.role with NEW.role
UpdateUserRoleStmt_AnyUpdate(db, uid, newRole) ==
    IF uid \notin DOMAIN db.users
    THEN Ok(db)
    ELSE LET d == DeleteRoleRecord([db EXCEPT !.users[uid] = newRole], uid,
                                   db.users[uid])
         IN  IF d.err # "ok" THEN d ELSE InsertRoleRecord(d.db, uid, newRole)

\* update(users).values(role=...) and the AFTER UPDATE OF role trigger
UpdateUserRoleStmt(db, uid, newRole) ==
    IF uid \notin DOMAIN db.users
    THEN Ok(db)
    ELSE handle_user_role_change(
            [db EXCEPT !.users[uid] = newRole], uid, db.users[uid], newRole)

\* delete(users): ON DELETE CASCADE on patients, pharmacy_staff and admins;
\* on doctors only while the column and its foreign key exist (dropped by
\* migrations 013 and 014, which `upgrade head` applies together)
DeleteUserStmt(db, uid) ==
    [users |-> [u \in DOMAIN db.users \ {uid} |-> db.users[u]],
     patients |-> db.patients \ {uid},
     doctors |-> db.doctors \ {uid},
     pharmacy_staff |-> {r \in db.pharmacy_staff : r.user_id # uid},
     admins |-> db.admins \ {uid},
     serial |-> db.serial]

\* get_db: commit on success, rollback of the whole transaction on an error
Transaction(before, outcome) ==
    IF outcome.err = "ok" THEN outcome.db ELSE before

Commit(db) ==
    /\ users' = db.users
    /\ patients' = db.patients
    /\ doctors' = db.doctors
    /\ pharmacy_staff' = db.pharmacy_staff
    /\ admins' = db.admins
    /\ roleRowSerial' = db.serial

\* UserService.get_user_by_id: the role it sees (cache first, then database)
GetUserRole(uid) ==
    IF userCache[uid] # "miss" THEN userCache[uid]
    ELSE IF uid \in DOMAIN users THEN users[uid]
    ELSE "none"

\* ... and the cache it leaves behind (a database hit is cached)
CacheAfterGet(uid) ==
    IF userCache[uid] = "miss" /\ uid \in DOMAIN users
    THEN [userCache EXCEPT ![uid] = users[uid]]
    ELSE userCache

\* self.cache.delete(cache_key): CacheManager.delete answers False and
\* leaves the key when the store raises
UserCacheDelete(cache, uid, raises) ==
    IF raises THEN cache ELSE [cache EXCEPT ![uid] = "miss"]

InitRole ==
    /\ users = <<>>
    /\ nextUserId = 1
    /\ patients = {}
    /\ doctors = {}
    /\ pharmacy_staff = {}
    /\ admins = {}
    /\ roleRowSerial = [u \in UserIds |-> 0]
    /\ doctorsUserIdCol = TRUE
    /\ userCache = [u \in UserIds |-> "miss"]
    /\ roleResult = [op |-> "none", uid |-> NULL, role |-> "none", res |-> "none"]

\* UserService.create_user
CreateUser(role, pid) ==
    /\ nextUserId <= MaxUsers
    /\ LET uid == nextUserId
           ins == InsertUser(RoleDb, uid, role)
           out == IF ins.err = "ok" /\ role = "pharmacy" /\ pid # NULL
                  THEN Ok(SetPharmacyId(ins.db, uid, pid))
                  ELSE ins
       IN  IF role = "pharmacy" /\ pid = NULL
           THEN /\ roleResult' = [op |-> "create", uid |-> NULL, role |-> role,
                                  res |-> "ValueError"]
                /\ UNCHANGED <<users, nextUserId, patients, doctors,
                               pharmacy_staff, admins, roleRowSerial, userCache>>
           ELSE /\ Commit(Transaction(RoleDb, out))
                /\ nextUserId' = IF out.err = "ok" THEN nextUserId + 1 ELSE nextUserId
                /\ userCache' = IF out.err = "ok"
                                THEN [userCache EXCEPT ![uid] = role]
                                ELSE userCache
                /\ roleResult' = [op |-> "create",
                                  uid |-> IF out.err = "ok" THEN uid ELSE NULL,
                                  role |-> role, res |-> out.err]
    /\ UNCHANGED doctorsUserIdCol

\* UserService.update_user_role
UpdateUserRole(uid, newRole, pid, raises) ==
    LET oldRole == GetUserRole(uid)
        upd == UpdateUserRoleStmt(RoleDb, uid, newRole)
        out == IF upd.err = "ok" /\ newRole = "pharmacy" /\ pid # NULL
               THEN Ok(SetPharmacyId(upd.db, uid, pid))
               ELSE upd
        Return(r) == roleResult' = [op |-> "update_role", uid |-> uid,
                                    role |-> newRole, res |-> r]
    IN  /\ IF oldRole = "none"
           THEN /\ Return("None")
                /\ UNCHANGED <<users, patients, doctors, pharmacy_staff, admins,
                               roleRowSerial, userCache>>
           ELSE IF oldRole = newRole
           THEN /\ Return("unchanged")
                /\ userCache' = CacheAfterGet(uid)
                /\ UNCHANGED <<users, patients, doctors, pharmacy_staff, admins,
                               roleRowSerial>>
           ELSE IF newRole = "pharmacy" /\ pid = NULL
           THEN /\ Return("ValueError")
                /\ userCache' = CacheAfterGet(uid)
                /\ UNCHANGED <<users, patients, doctors, pharmacy_staff, admins,
                               roleRowSerial>>
           ELSE IF uid \notin DOMAIN users
           THEN /\ Return("None")
                /\ userCache' = CacheAfterGet(uid)
                /\ UNCHANGED <<users, patients, doctors, pharmacy_staff, admins,
                               roleRowSerial>>
           ELSE /\ roleRowSerial[uid] < MaxRoleRows
                /\ Commit(Transaction(RoleDb, out))
                /\ Return(out.err)
                /\ userCache' = IF out.err = "ok"
                                THEN UserCacheDelete(CacheAfterGet(uid), uid, raises)
                                ELSE CacheAfterGet(uid)
        /\ UNCHANGED <<nextUserId, doctorsUserIdCol>>

\* UserService.delete_user (hard delete)
DeleteUser(uid, raises) ==
    /\ Commit(DeleteUserStmt(RoleDb, uid))
    /\ userCache' = UserCacheDelete(userCache, uid, raises)
    /\ roleResult' = [op |-> "delete", uid |-> uid, role |-> "none",
                      res |-> IF uid \in DOMAIN users THEN "True" ELSE "False"]
    /\ UNCHANGED <<nextUserId, doctorsUserIdCol>>

\* Migrations 013 and 014: doctors.user_id and its foreign key are dropped;
\* the doctors rows stay but no longer refer to a user
Migration014 ==
    /\ doctorsUserIdCol
    /\ doctorsUserIdCol' = FALSE
    /\ doctors' = {}
    /\ roleResult' = [op |-> "migrate", uid |-> NULL, role |-> "none", res |-> "ok"]
    /\ UNCHANGED <<users, nextUserId, patients, pharmacy_staff, admins,
                   roleRowSerial, userCache>>

\* The cache entry user:{id} reaches its TTL (USER_CACHE_TTL)
UserCacheExpire(uid) ==
    /\ userCache[uid] # "miss"
    /\ userCache' = [userCache EXCEPT ![uid] = "miss"]
    /\ UNCHANGED <<users, nextUserId, patients, doctors, pharmacy_staff, admins,
                   roleRowSerial, doctorsUserIdCol, roleResult>>

NextRole ==
    \/ \E r \in Roles, p \in PharmacyIds \cup {NULL} : CreateUser(r, p)
    \/ \E u \in UserIds, r \in Roles, p \in PharmacyIds \cup {NULL}, f \in BOOLEAN :
           UpdateUserRole(u, r, p, f)
    \/ \E u \in UserIds, f \in BOOLEAN : DeleteUser(u, f)
    \/ Migration014
    \/ \E u \in UserIds : UserCacheExpire(u)


\* ------------------------------------------------------------------------
\* Push tokens (NotificationService.register_token and friends).  The users
\* named by the requests are authenticated users, whose users rows exist.
\* ------------------------------------------------------------------------

\* Mutant: the deactivation forgets the platform condition
DeactivateOthers_AnyPlatform(rows, uid, tok, plat) ==
    {IF r.user_id = uid /\ r.fcm_token # tok
     THEN [r EXCEPT !.is_active = FALSE] ELSE r : r \in rows}

\* update(push_tokens).where(user_id, platform, fcm_token != :tok)
\*                    .values(is_active=False)
DeactivateOthers(rows, uid, tok, plat) ==
    {IF r.user_id = uid /\ r.platform = plat /\ r.fcm_token # tok
     THEN [r EXCEPT !.is_active = FALSE] ELSE r : r \in rows}

\* select(push_tokens).where(user_id, fcm_token): unique_user_fcm_token
\* makes the match unique
ExistingToken(rows, uid, tok) ==
    {r \in rows : r.user_id = uid /\ r.fcm_token = tok}

\* push_tokens.id is a generated uuid.  (user_id, fcm_token) is unique and no
\* request deletes a row, so a row is named here by the index of its pair;
\* distinct rows have distinct ids and an id is never given to another row.
TokenRowId(uid, tok) == (uid - 1) * MaxTokenValues + tok

\* push_tokens.insert(): unique_user_fcm_token rejects a second row for the
\* same (user_id, fcm_token)
InsertToken(rows, uid, tok, plat) ==
    IF ExistingToken(rows, uid, tok) # {}
    THEN [rows |-> rows, row |-> {}, err |-> "IntegrityError"]
    ELSE LET new == [id |-> TokenRowId(uid, tok), user_id |-> uid,
                     fcm_token |-> tok, platform |-> plat, is_active |-> TRUE]
         IN  [rows |-> rows \cup {new}, row |-> {new}, err |-> "ok"]

\* Mutant: an existing row is returned as it is, without is_active=True
register_token_NoReactivate(rows, uid, tok, plat) ==
    LET d == DeactivateOthers(rows, uid, tok, plat)
        ex == ExistingToken(d, uid, tok)
    IN  IF ex # {}
        THEN [rows |-> d, row |-> ex, err |-> "ok"]
        ELSE LET ins == InsertToken(d, uid, tok, plat)
             IN  IF ins.err = "ok" THEN ins
                 ELSE [rows |-> rows, row |-> {}, err |-> ins.err]

\* NotificationService.register_token: the rows it leaves, the row it
\* returns and the error it raises, if any
register_token(rows, uid, tok, plat) ==
    LET d == DeactivateOthers(rows, uid, tok, plat)
        ex == ExistingToken(d, uid, tok)
    IN  IF ex # {}
        THEN LET old == CHOOSE r \in ex : TRUE
                 new == [old EXCEPT !.is_active = TRUE, !.platform = plat]
             IN  [rows |-> (d \ {old}) \cup {new}, row |-> {new}, err |-> "ok"]
        ELSE LET ins == InsertToken(d, uid, tok, plat)
             IN  IF ins.err = "ok" THEN ins
                 ELSE [rows |-> rows, row |-> {}, err |-> ins.err]

NoTokenResult ==
    [op |-> "none", id |-> NULL, user |-> NULL, token |-> NULL,
     platform |-> "none", existed |-> FALSE]

\* POST /notifications/register-token
RegisterToken(uid, tok, plat) ==
    LET r == register_token(push_tokens, uid, tok, plat)
    IN  /\ plat \in Platforms
        /\ push_tokens' = r.rows
        /\ tokenResult' =
              [op |-> IF r.err = "ok" THEN "register" ELSE r.err,
               id |-> IF r.row = {} THEN NULL ELSE (CHOOSE x \in r.row : TRUE).id,
               user |-> uid, token |-> tok, platform |-> plat,
               existed |-> ExistingToken(push_tokens, uid, tok) # {}]
        /\ UNCHANGED notifVars

\* NotificationService.deactivate_token
DeactivateToken(uid, tok) ==
    /\ push_tokens' = {IF r.user_id = uid /\ r.fcm_token = tok
                       THEN [r EXCEPT !.is_active = FALSE] ELSE r : r \in push_tokens}
    /\ tokenResult' = [NoTokenResult EXCEPT !.op = "deactivate"]
    /\ UNCHANGED notifVars

\* NotificationService.deactivate_all_user_tokens
DeactivateAllUserTokens(uid) ==
    /\ push_tokens' = {IF r.user_id = uid
                       THEN [r EXCEPT !.is_active = FALSE] ELSE r : r \in push_tokens}
    /\ tokenResult' = [NoTokenResult EXCEPT !.op = "deactivate_all"]
    /\ UNCHANGED notifVars

\* ------------------------------------------------------------------------
\* Notification fan-out (NotificationService.send_to_user)
\* ------------------------------------------------------------------------

\* Mutant: the lookup forgets the is_active condition
ActiveTokens_IncludeInactive(rows, uid) ==
    {r \in rows : r.user_id = uid}

\* select(push_tokens.id, push_tokens.fcm_token)
\*   .where(user_id == :uid, is_active == True)
ActiveTokens(rows, uid) ==
    {r \in rows : r.user_id = uid /\ r.is_active}

\* Mutant: the dict is keyed by something the user's tokens share
TokenMap_OneKey(records) ==
    [t \in {1 : r \in records} |-> (CHOOSE r \in records : TRUE).id]

\* token_map = {record.fcm_token: record.id for record in token_records}:
\* a dict, so one entry per distinct fcm_token
TokenMap(records) ==
    [t \in {r.fcm_token : r \in records} |->
        (CHOOSE r \in records : r.fcm_token = t).id]

MapValues(m) == {m[k] : k \in DOMAIN m}

\* What messaging.send_each_for_multicast can do with k tokens: raise, or
\* answer with one response per token, success_count of them successful
FcmOutcomes(k) ==
    {[raised |-> TRUE, success_count |-> 0, text |-> "FCM send failed"]}
    \cup {[raised |-> FALSE, success_count |-> n, text |-> NullText] : n \in 0..k}

\* NotificationService.send_push_notification -> (success_count, failure_count)
send_push_notification(tokens, fcm) ==
    IF tokens = {} THEN <<0, 0>>
    ELSE IF fcm.raised THEN <<0, Cardinality(tokens)>>
    ELSE <<fcm.success_count, Cardinality(tokens) - fcm.success_count>>

\* Mutant: a partial success counts as a failure
FinalStatus_PartialFails(success_count, failure_count) ==
    IF failure_count = 0 THEN "delivered" ELSE "failed"

\* "Update notification final status"
FinalStatus(success_count, failure_count) ==
    IF failure_count = 0 THEN "delivered"
    ELSE IF success_count = 0 THEN "failed"
    ELSE "delivered"

NoFcm == [raised |-> FALSE, success_count |-> 0, text |-> NullText]

\* send_to_user up to its first commit: the notification row, the token
\* lookup, and either the "no active tokens" failure or the pending
\* delivery rows and status sent
SendToUserBegin(uid) ==
    /\ nextNotifId <= MaxNotifications
    /\ LET nid == nextNotifId
           token_records == ActiveTokens(push_tokens, uid)
           token_map == TokenMap(token_records)
           row(st, why) == [user_id |-> uid, status |-> st, failure_reason |-> why,
                            delivered_at |-> FALSE, read_at |-> FALSE]
           WithRow(r) == [n \in DOMAIN notifications \cup {nid} |->
                             IF n = nid THEN r ELSE notifications[n]]
           WithSend(c) == [n \in DOMAIN sends \cup {nid} |->
                             IF n = nid THEN c ELSE sends[n]]
       IN  IF token_records = {}
           THEN /\ notifications' = WithRow(row("failed", "No active tokens for user"))
                /\ sends' = WithSend([pc |-> "done", token_map |-> token_map,
                                      fcm |-> NoFcm, ret |-> <<0, 0>>])
                /\ UNCHANGED notification_deliveries
           ELSE /\ notifications' = WithRow(row("sent", NullText))
                /\ notification_deliveries' = notification_deliveries \cup
                      {[notification_id |-> nid, push_token_id |-> t,
                        delivery_status |-> "pending", failure_reason |-> NullText]
                         : t \in MapValues(token_map)}
                /\ sends' = WithSend([pc |-> "fcm", token_map |-> token_map,
                                      fcm |-> NoFcm, ret |-> <<0, 0>>])
    /\ nextNotifId' = nextNotifId + 1
    /\ UNCHANGED tokenVars

\* update(notifications).where(id == :nid).values(status, ...)
SetNotification(rows, nid, st, why, delivered) ==
    [n \in DOMAIN rows |->
        IF n = nid
        THEN [rows[n] EXCEPT !.status = st, !.failure_reason = why,
                             !.delivered_at = delivered]
        ELSE rows[n]]

\* update(notification_deliveries).where(notification_id == :nid)
\*    .values(delivery_status="sent", delivered_at=now)
MarkDeliveries(rows, nid, st) ==
    {IF d.notification_id = nid THEN [d EXCEPT !.delivery_status = st] ELSE d
        : d \in rows}

\* send_to_user from the messaging call to its last commit.  The call is
\* wrapped by send_push_notification, which turns an exception of the
\* messaging API into (0, len(tokens)); the except branch of send_to_user
\* is reached by no outcome of the call.
SendToUserFinish(nid, fcm) ==
    /\ nid \in DOMAIN sends
    /\ sends[nid].pc = "fcm"
    /\ fcm \in FcmOutcomes(Cardinality(DOMAIN sends[nid].token_map))
    /\ LET counts == send_push_notification(DOMAIN sends[nid].token_map, fcm)
           final_status == FinalStatus(counts[1], counts[2])
       IN  /\ notifications' =
                 SetNotification(notifications, nid, final_status,
                                 notifications[nid].failure_reason, counts[1] > 0)
           /\ notification_deliveries' =
                 MarkDeliveries(notification_deliveries, nid, "sent")
           /\ sends' = [sends EXCEPT ![nid].pc = "done", ![nid].fcm = fcm,
                                     ![nid].ret = counts]
    /\ UNCHANGED <<tokenVars, nextNotifId>>

InitNotif ==
    /\ push_tokens = {}
    /\ notifications = <<>>
    /\ nextNotifId = 1
    /\ notification_deliveries = {}
    /\ sends = <<>>
    /\ tokenResult = NoTokenResult

\* The push-token requests, with the tokens drawn from T and the platforms
\* from P
NextTokens(T, P) ==
    \/ \E u \in UserIds, t \in T, p \in P : RegisterToken(u, t, p)
    \/ \E u \in UserIds, t \in T : DeactivateToken(u, t)
    \/ \E u \in UserIds : DeactivateAllUserTokens(u)

\* The tokens presented while notifications are sent
SendTokenValues == 1..MaxSendTokenValues

\* The platforms of the devices that register in the model
DevicePlatforms == {"android", "ios"}

NextNotif ==
    \/ NextTokens(SendTokenValues, DevicePlatforms)
    \/ \E u \in UserIds : SendToUserBegin(u)
    \/ \E n \in 1..MaxNotifications :
          \E f \in FcmOutcomes(MaxSendTokenValues) : SendToUserFinish(n, f)


\* ------------------------------------------------------------------------
\* Appointments (AppointmentService).  The requesting users are
\* authenticated users; user_id is str(current_user["id"]).
\* ------------------------------------------------------------------------

ApptIds == 1..MaxAppointments

\* The row select(appointments).where(id == :aid, deleted_at IS NULL) finds
VisibleAppointment(rows, aid) ==
    aid \in DOMAIN rows /\ rows[aid].deleted_at = NULL

\* AppointmentResponse.model_validate(dict(row._mapping)): the validators
\* inherited from AppointmentBase (validate_phone, validate_end_time) run
\* on the stored row
model_validate(row) == IF row.valid THEN "ok" ELSE "ValidationError"

\* Mutant: the lookup forgets the deleted_at IS NULL condition
get_appointment_NoDeletedFilter(rows, aid, uid) ==
    IF aid \notin DOMAIN rows THEN "NotFound"
    ELSE IF rows[aid].patient_id # uid THEN "Forbidden"
    ELSE model_validate(rows[aid])

\* Mutant: the access check is missing
get_appointment_NoOwnerCheck(rows, aid, uid) ==
    IF ~VisibleAppointment(rows, aid) THEN "NotFound"
    ELSE model_validate(rows[aid])

\* AppointmentService.get_appointment: what it raises, or "ok"
get_appointment(rows, aid, uid) ==
    IF ~VisibleAppointment(rows, aid) THEN "NotFound"
    ELSE IF rows[aid].patient_id # uid THEN "Forbidden"
    ELSE model_validate(rows[aid])

\* AppointmentService.list_appointments: the ids of the rows that match
\* (status is the optional status filter, "unset" when absent)
list_appointments(rows, uid, status) ==
    {a \in DOMAIN rows :
        /\ rows[a].patient_id = uid
        /\ rows[a].deleted_at = NULL
        /\ status # "unset" => rows[a].status = status}

\* update_values of update_appointment: the fields that are set and not
\* None.  AppointmentUpdate checks contact_phone for its length only, so
\* the request can store a phone (phone = "letters") that validate_phone of
\* the response schema rejects; phone = "unset" leaves the column alone.
UpdateValues(row, status, notes, phone, t) ==
    [row EXCEPT !.status = IF status # "unset" THEN status ELSE @,
                !.notes = IF notes # NullText THEN notes ELSE @,
                !.valid = IF phone = "letters" THEN FALSE
                          ELSE IF phone = "digits" THEN TRUE ELSE @,
                !.updated_at = t]

\* What a PUT request can carry as contact_phone
PhoneValues == {"unset", "digits", "letters"}

\* Mutant: the request's status item is stored
CreateValues_RequestedStatus(uid, notes, t, requested) ==
    [patient_id |-> uid,
     status |-> IF requested # "unset" THEN requested ELSE "scheduled",
     notes |-> notes, updated_at |-> t, cancelled_at |-> NULL,
     deleted_at |-> NULL, valid |-> TRUE]

\* values of create_appointment: "status": AppointmentStatus.SCHEDULED.value;
\* AppointmentCreate declares no status field, so a status item of the
\* request body (requested) is dropped
CreateValues(uid, notes, t, requested) ==
    [patient_id |-> uid, status |-> "scheduled", notes |-> notes,
     updated_at |-> t, cancelled_at |-> NULL, deleted_at |-> NULL,
     valid |-> TRUE]

\* Mutant: a status other than cancelled clears the cancellation timestamp
StatusUpdateValues_ClearsCancelledAt(row, status, notes, t) ==
    [row EXCEPT !.status = status,
                !.updated_at = t,
                !.notes = IF notes # NullText THEN notes ELSE @,
                !.cancelled_at = IF status = "cancelled" THEN t ELSE NULL]

\* update_values of update_appointment_status
StatusUpdateValues(row, status, notes, t) ==
    [row EXCEPT !.status = status,
                !.updated_at = t,
                !.notes = IF notes # NullText THEN notes ELSE @,
                !.cancelled_at = IF status = "cancelled" THEN t ELSE @]

NoApptResult ==
    [op |-> "none", user |-> NULL, id |-> NULL, status |-> "unset",
     res |-> "none", items |-> {}, notified |-> "none", send |-> "none",
     requested |-> "unset"]

\* What awaiting a NotificationService send can do: return, or raise
SendOutcomes == {"sent", "raised"}

\* Mutant: the exception of the send reaches the caller
BestEffortSend_Propagate(outcome) ==
    IF outcome = "raised" THEN "InternalError" ELSE "ok"

\* try: await NotificationService.send_...(...)
\* except Exception as e: logger.warning(...)
\* What the request ends with after the send returned or raised
BestEffortSend(outcome) == "ok"

\* datetime.utcnow(): the clock does not run backwards
Times == {t \in 1..MaxClock : t >= now}

InitAppt ==
    /\ appointments = <<>>
    /\ nextApptId = 1
    /\ now = 1
    /\ apptResult = NoApptResult

\* POST /appointments: create_appointment, then the best-effort
\* "Appointment Scheduled" notification
CreateAppointment(uid, notes, requested, t, outcome) ==
    /\ nextApptId <= MaxAppointments
    /\ appointments' =
          [a \in DOMAIN appointments \cup {nextApptId} |->
              IF a = nextApptId
              THEN CreateValues(uid, notes, t, requested)
              ELSE appointments[a]]
    /\ nextApptId' = nextApptId + 1
    /\ now' = t
    /\ apptResult' = [NoApptResult EXCEPT !.op = "create", !.user = uid,
                         !.id = nextApptId,
                         !.status = appointments'[nextApptId].status,
                         !.requested = requested,
                         !.res = BestEffortSend(outcome),
                         !.notified = "appointment_created", !.send = outcome]

\* GET /appointments/{id}
GetAppointment(aid, uid) ==
    /\ apptResult' = [NoApptResult EXCEPT !.op = "get", !.user = uid, !.id = aid,
                         !.res = get_appointment(appointments, aid, uid)]
    /\ UNCHANGED <<appointments, nextApptId, now>>

\* GET /appointments
ListAppointments(uid, status) ==
    /\ LET rows == list_appointments(appointments, uid, status)
           raised == \E a \in rows : model_validate(appointments[a]) # "ok"
       IN  apptResult' = [NoApptResult EXCEPT !.op = "list", !.user = uid,
                             !.status = status,
                             !.res = IF raised THEN "ValidationError" ELSE "ok",
                             !.items = IF raised THEN {} ELSE rows]
    /\ UNCHANGED <<appointments, nextApptId, now>>

\* PUT /appointments/{id}: update_appointment
UpdateAppointment(aid, uid, status, notes, phone, t) ==
    LET access == get_appointment(appointments, aid, uid)
        written == access = "ok"
                   /\ (status # "unset" \/ notes # NullText \/ phone # "unset")
    IN  /\ IF written
           THEN /\ appointments' =
                     [appointments EXCEPT
                         ![aid] = UpdateValues(@, status, notes, phone, t)]
                /\ now' = t
           ELSE UNCHANGED <<appointments, now>>
        /\ apptResult' = [NoApptResult EXCEPT !.op = "update", !.user = uid,
                             !.id = aid, !.status = status,
                             !.res = IF written
                                     THEN model_validate(appointments'[aid])
                                     ELSE access]
        /\ UNCHANGED nextApptId

\* PATCH /appointments/{id}/status: update_appointment_status, then the
\* best-effort status notification when the status differs from the old one
UpdateAppointmentStatus(aid, uid, status, notes, t, outcome) ==
    LET access == get_appointment(appointments, aid, uid)
        changed == appointments[aid].status # status
    IN  /\ IF access = "ok"
           THEN /\ appointments' =
                     [appointments EXCEPT ![aid] = StatusUpdateValues(@, status, notes, t)]
                /\ now' = t
                /\ apptResult' =
                     [NoApptResult EXCEPT !.op = "update_status", !.user = uid,
                         !.id = aid, !.status = status,
                         !.res = IF changed THEN BestEffortSend(outcome) ELSE "ok",
                         !.notified = IF changed THEN "appointment_status" ELSE "none",
                         !.send = IF changed THEN outcome ELSE "none"]
           ELSE /\ apptResult' =
                     [NoApptResult EXCEPT !.op = "update_status", !.user = uid,
                         !.id = aid, !.status = status, !.res = access]
                /\ UNCHANGED <<appointments, now>>
        /\ UNCHANGED nextApptId

\* DELETE /appointments/{id}?hard_delete=: delete_appointment
DeleteAppointment(aid, uid, hard_delete, t) ==
    LET access == get_appointment(appointments, aid, uid)
    IN  /\ apptResult' = [NoApptResult EXCEPT
                             !.op = IF hard_delete THEN "hard_delete" ELSE "soft_delete",
                             !.user = uid, !.id = aid, !.res = access]
        /\ IF access # "ok"
           THEN UNCHANGED <<appointments, now>>
           ELSE IF hard_delete
           THEN /\ appointments' =
                     [a \in DOMAIN appointments \ {aid} |-> appointments[a]]
                /\ UNCHANGED now
           ELSE /\ appointments' =
                     [appointments EXCEPT ![aid].deleted_at = t, ![aid].updated_at = t]
                /\ now' = t
        /\ UNCHANGED nextApptId

NoteValues == {NullText, "note"}

NextAppt ==
    \/ \E u \in UserIds, n \in NoteValues, s \in AppointmentStatus \cup {"unset"},
          t \in Times, o \in SendOutcomes : CreateAppointment(u, n, s, t, o)
    \/ \E a \in ApptIds, u \in UserIds : GetAppointment(a, u)
    \/ \E u \in UserIds, s \in AppointmentStatus \cup {"unset"} : ListAppointments(u, s)
    \/ \E a \in ApptIds, u \in UserIds, s \in AppointmentStatus \cup {"unset"},
          n \in NoteValues, p \in PhoneValues, t \in Times :
          UpdateAppointment(a, u, s, n, p, t)
    \/ \E a \in ApptIds, u \in UserIds, s \in AppointmentStatus,
          n \in NoteValues, t \in Times, o \in SendOutcomes :
          UpdateAppointmentStatus(a, u, s, n, t, o)
    \/ \E a \in ApptIds, u \in UserIds, h \in BOOLEAN, t \in Times :
          DeleteAppointment(a, u, h, t)

\* ------------------------------------------------------------------------
\* Notification endpoints: /notifications/admin-send and the detail,
\* mark-as-read and delete endpoints of one notification
\* ------------------------------------------------------------------------

\* settings.admin_notification_secret
admin_notification_secret == "test-admin-secret-for-development-only"

\* Values of the X-Admin-Secret header
PresentedSecrets == {admin_notification_secret, "guess", ""}

\* current_user["role"] of the authenticated caller
CallerRoles == {"patient", "admin"}

NoApiResult ==
    [op |-> "none", caller |-> NULL, role |-> "none", id |-> NULL,
     secret |-> "none", code |-> 0]

\* Mutant: the header is not compared with the configured secret
SecretRejected_Never(x_admin_secret) == FALSE

\* if x_admin_secret != settings.admin_notification_secret
SecretRejected(x_admin_secret) == x_admin_secret # admin_notification_secret

\* POST /notifications/admin-send up to the first commit of send_to_user
AdminSend(uid, x_admin_secret) ==
    IF SecretRejected(x_admin_secret)
    THEN /\ apiResult' = [NoApiResult EXCEPT !.op = "admin_send",
                             !.secret = x_admin_secret, !.code = 401]
         /\ UNCHANGED <<tokenVars, notifVars>>
    ELSE /\ SendToUserBegin(uid)
         /\ apiResult' = [NoApiResult EXCEPT !.op = "admin_send",
                             !.secret = x_admin_secret, !.id = nextNotifId,
                             !.code = IF sends'[nextNotifId].pc = "done"
                                      THEN 200 ELSE 0]

\* ... and from the messaging call to the response
AdminSendFinish(nid, fcm) ==
    /\ SendToUserFinish(nid, fcm)
    /\ apiResult' = [NoApiResult EXCEPT !.op = "admin_send",
                        !.secret = admin_notification_secret, !.id = nid,
                        !.code = 200]

\* user_id_filter = None if current_user.get("role") == "admin"
\*                  else str(current_user["id"])
user_id_filter(caller, role) == IF role = "admin" THEN NULL ELSE caller

\* Mutant: the user_id condition is never added to the query
MatchesNotification_AnyUser(rows, nid, user_id) == nid \in DOMAIN rows

\* where(notifications.c.id == :nid) and, `if user_id:`,
\* where(notifications.c.user_id == :user_id)
MatchesNotification(rows, nid, user_id) ==
    /\ nid \in DOMAIN rows
    /\ user_id # NULL => rows[nid].user_id = user_id

\* GET /notifications/{notification_id}
GetNotificationDetail(nid, caller, role) ==
    /\ apiResult' =
          [NoApiResult EXCEPT !.op = "detail", !.caller = caller, !.role = role,
              !.id = nid,
              !.code = IF MatchesNotification(notifications, nid,
                                              user_id_filter(caller, role))
                       THEN 200 ELSE 404]
    /\ UNCHANGED <<tokenVars, notifVars>>

\* PATCH /notifications/{notification_id}/read: mark_notification_as_read
\* always filters on the caller's id
MarkNotificationRead(nid, caller, role) ==
    LET hit == MatchesNotification(notifications, nid, caller)
    IN  /\ notifications' =
              IF hit THEN [notifications EXCEPT ![nid].status = "read",
                                                ![nid].read_at = TRUE]
              ELSE notifications
        /\ apiResult' = [NoApiResult EXCEPT !.op = "mark_read", !.caller = caller,
                            !.role = role, !.id = nid,
                            !.code = IF hit THEN 204 ELSE 404]
        /\ UNCHANGED <<tokenVars, nextNotifId, notification_deliveries, sends>>

\* DELETE /notifications/{notification_id}; the delivery rows go with the
\* notification (ON DELETE CASCADE)
DeleteNotification(nid, caller, role) ==
    LET hit == MatchesNotification(notifications, nid, user_id_filter(caller, role))
    IN  /\ notifications' =
              IF hit THEN [n \in DOMAIN notifications \ {nid} |-> notifications[n]]
              ELSE notifications
        /\ notification_deliveries' =
              IF hit THEN {d \in notification_deliveries : d.notification_id # nid}
              ELSE notification_deliveries
        /\ apiResult' = [NoApiResult EXCEPT !.op = "delete", !.caller = caller,
                            !.role = role, !.id = nid,
                            !.code = IF hit THEN 204 ELSE 404]
        /\ UNCHANGED <<tokenVars, nextNotifId, sends>>

InitApi == apiResult = NoApiResult

\* The one device whose token is registered in these behaviours
ApiTokenValues == {1}

NextNotifApi ==
    \/ /\ NextTokens(ApiTokenValues, {"android"})
       /\ UNCHANGED <<notifVars, apiVars>>
    \/ \E u \in UserIds, x \in PresentedSecrets : AdminSend(u, x)
    \/ \E n \in 1..MaxNotifications : \E f \in FcmOutcomes(1) : AdminSendFinish(n, f)
    \/ \E n \in 1..MaxNotifications, u \in UserIds, r \in CallerRoles :
          GetNotificationDetail(n, u, r)
    \/ \E n \in 1..MaxNotifications, u \in UserIds, r \in CallerRoles :
          MarkNotificationRead(n, u, r)
    \/ \E n \in 1..MaxNotifications, u \in UserIds, r \in CallerRoles :
          DeleteNotification(n, u, r)

\* ------------------------------------------------------------------------
\* Doctor-clinic associations (ClinicService over the doctor_clinics table
\* of migration 010)
\* ------------------------------------------------------------------------

ClinicIds == 1..MaxClinics

\* The doctor whose associations are followed
DoctorIds == {1}

\* doctor_clinics_status_check
AssociationStatus == {"active", "on_leave", "temporarily_unavailable", "inactive"}

\* Mutant: the index is not unique
uq_doctor_clinic_active_NotUnique(rows) == TRUE

\* CREATE UNIQUE INDEX uq_doctor_clinic_active
\*   ON doctor_clinics (doctor_id, clinic_id) WHERE end_date IS NULL
uq_doctor_clinic_active(rows) ==
    \A r1, r2 \in rows :
        (/\ r1.end_date = NULL /\ r2.end_date = NULL
         /\ r1.doctor_id = r2.doctor_id /\ r1.clinic_id = r2.clinic_id)
        => r1.id = r2.id

\* A statement on doctor_clinics: its rows are kept when the unique index
\* admits them, otherwise the statement raises IntegrityError
AssocStatement(before, after) ==
    IF uq_doctor_clinic_active(after)
    THEN [rows |-> after, err |-> "ok"]
    ELSE [rows |-> before, err |-> "IntegrityError"]

NoAssocResult ==
    [op |-> "none", id |-> NULL, doctor_id |-> NULL, clinic_id |-> NULL, res |-> "none"]

InitAssoc ==
    /\ doctor_clinics = {}
    /\ nextAssocId = 1
    /\ assocResult = NoAssocResult

\* add_doctor_to_clinic: the row starts with end_date NULL and status active
AddDoctorToClinic(d, c) ==
    /\ nextAssocId <= MaxAssociations
    /\ LET row == [id |-> nextAssocId, doctor_id |-> d, clinic_id |-> c,
                   end_date |-> NULL, status |-> "active"]
           st == AssocStatement(doctor_clinics, doctor_clinics \cup {row})
       IN  /\ doctor_clinics' = st.rows
           /\ assocResult' = [NoAssocResult EXCEPT !.op = "add", !.id = nextAssocId,
                                 !.doctor_id = d, !.clinic_id = c, !.res = st.err]
    /\ nextAssocId' = nextAssocId + 1

\* update_doctor_clinic_association: of the fields it can set, status is
\* the one that matters here ("unset" when the request leaves it out)
UpdateAssociation(id, status) ==
    LET after == {IF r.id = id /\ status # "unset"
                  THEN [r EXCEPT !.status = status] ELSE r : r \in doctor_clinics}
        st == AssocStatement(doctor_clinics, after)
    IN  /\ doctor_clinics' = st.rows
        /\ assocResult' = [NoAssocResult EXCEPT !.op = "update", !.id = id,
                              !.res = st.err]
        /\ UNCHANGED nextAssocId

\* end_doctor_clinic_association: end_date is the given one or now
EndAssociation(id, t) ==
    LET after == {IF r.id = id
                  THEN [r EXCEPT !.end_date = t, !.status = "inactive"] ELSE r
                     : r \in doctor_clinics}
        st == AssocStatement(doctor_clinics, after)
    IN  /\ doctor_clinics' = st.rows
        /\ assocResult' = [NoAssocResult EXCEPT !.op = "end", !.id = id,
                              !.res = st.err]
        /\ UNCHANGED nextAssocId

\* remove_doctor_from_clinic: ends the rows of the pair whose end_date is NULL
RemoveDoctorFromClinic(d, c, t) ==
    LET after == {IF r.doctor_id = d /\ r.clinic_id = c /\ r.end_date = NULL
                  THEN [r EXCEPT !.end_date = t, !.status = "inactive"] ELSE r
                     : r \in doctor_clinics}
        st == AssocStatement(doctor_clinics, after)
    IN  /\ doctor_clinics' = st.rows
        /\ assocResult' = [NoAssocResult EXCEPT !.op = "remove", !.doctor_id = d,
                              !.clinic_id = c, !.res = st.err]
        /\ UNCHANGED nextAssocId

NextAssoc ==
    \/ \E d \in DoctorIds, c \in ClinicIds : AddDoctorToClinic(d, c)
    \/ \E i \in 1..MaxAssociations, st \in AssociationStatus \cup {"unset"} :
          UpdateAssociation(i, st)
    \/ \E i \in 1..MaxAssociations, t \in 1..MaxClock : EndAssociation(i, t)
    \/ \E d \in DoctorIds, c \in ClinicIds, t \in 1..MaxClock :
          RemoveDoctorFromClinic(d, c, t)

\* ------------------------------------------------------------------------
\* Cache store (CacheManager over the Redis client).  A key is the sequence
\* of its colon-separated segments; a pattern is a key whose last segment
\* is "*".
\* ------------------------------------------------------------------------

\* The keys written or deleted by the services
CacheKeys ==
    {<<"user", "1">>, <<"clinic", "1">>, <<"doctor", "1">>,
     <<"clinic", "list", "a">>, <<"clinic", "list", "b">>,
     <<"doctor", "list", "a">>, <<"blacklist", "t1">>, <<"blacklist", "t2">>}

CacheValues == 1..MaxCacheValue

Absent == [val |-> NULL, ttl |-> FALSE]

\* redis.get(key): the value, None for an absent key
RedisGet(store, key) == store[key].val

\* redis.setex(key, ttl, value) / redis.set(key, value)
RedisSet(store, key, value, ttl) ==
    [store EXCEPT ![key] = [val |-> value, ttl |-> ttl]]

\* redis.delete(*keys): the store without them, and how many were there
RedisDelete(store, keys) ==
    [store |-> [k \in DOMAIN store |-> IF k \in keys THEN Absent ELSE store[k]],
     count |-> Cardinality({k \in keys : store[k].val # NULL})]

\* Glob match of redis.keys(pattern) for patterns of the form prefix:*
GlobMatch(pattern, key) ==
    /\ Len(key) >= Len(pattern)
    /\ \A i \in 1..(Len(pattern) - 1) : key[i] = pattern[i]

\* redis.keys(pattern)
RedisKeys(store, pattern) ==
    {k \in DOMAIN store : store[k].val # NULL /\ GlobMatch(pattern, k)}

\* What a CacheManager method hands back: the store afterwards, the value,
\* flag or count it returns, and the exception that leaves it
CacheRet(store, val, ok, count) ==
    [store |-> store, val |-> val, ok |-> ok, count |-> count, exc |-> "none"]

\* CacheManager.get
CacheManager_get(store, key, raises) ==
    IF raises THEN CacheRet(store, NULL, FALSE, 0)
    ELSE CacheRet(store, RedisGet(store, key), FALSE, 0)

\* CacheManager.set: `if ttl:` chooses setex, so ttl = 0 stores without expiry
CacheManager_set(store, key, value, ttl, raises) ==
    IF raises THEN CacheRet(store, NULL, FALSE, 0)
    ELSE CacheRet(RedisSet(store, key, value, ttl), NULL, TRUE, 0)

\* Mutant: the delete is acknowledged without being carried out
CacheManager_delete_Skip(store, key, raises) ==
    IF raises THEN CacheRet(store, NULL, FALSE, 0)
    ELSE CacheRet(store, NULL, TRUE, 0)

\* CacheManager.delete
CacheManager_delete(store, key, raises) ==
    IF raises THEN CacheRet(store, NULL, FALSE, 0)
    ELSE CacheRet(RedisDelete(store, {key}).store, NULL, TRUE, 0)

\* Mutant: the error of the store is not caught
CacheManager_exists_Raises(store, key, raises) ==
    IF raises THEN [CacheRet(store, NULL, FALSE, 0) EXCEPT !.exc = "RedisError"]
    ELSE CacheRet(store, NULL, RedisGet(store, key) # NULL, 0)

\* CacheManager.exists
CacheManager_exists(store, key, raises) ==
    IF raises THEN CacheRet(store, NULL, FALSE, 0)
    ELSE CacheRet(store, NULL, RedisGet(store, key) # NULL, 0)

\* CacheManager.get_json: json.loads of the stored text
CacheManager_get_json(store, key, raises) ==
    IF raises THEN CacheRet(store, NULL, FALSE, 0)
    ELSE CacheRet(store, RedisGet(store, key), FALSE, 0)

\* CacheManager.set_json: json.dumps, then as set
CacheManager_set_json(store, key, value, ttl, raises) ==
    IF raises THEN CacheRet(store, NULL, FALSE, 0)
    ELSE CacheRet(RedisSet(store, key, value, ttl), NULL, TRUE, 0)

\* Where the store can raise inside delete_pattern
PatternRaises == {"none", "keys", "delete"}

\* CacheManager.delete_pattern
CacheManager_delete_pattern(store, pattern, raises) ==
    LET keys == RedisKeys(store, pattern)
        deleted == RedisDelete(store, keys)
    IN  IF raises = "keys" \/ (raises = "delete" /\ keys # {})
        THEN CacheRet(store, NULL, FALSE, 0)
        ELSE IF keys # {}
        THEN CacheRet(deleted.store, NULL, FALSE, deleted.count)
        ELSE CacheRet(store, NULL, FALSE, 0)

NoCacheResult ==
    [op |-> "none", key |-> <<>>, raised |-> FALSE,
     val |-> NULL, ok |-> FALSE, count |-> 0, exc |-> "none"]

\* The answer of a CacheManager method as the caller sees it
CacheAnswer(op, key, raised, r) ==
    [op |-> op, key |-> key, raised |-> raised,
     val |-> r.val, ok |-> r.ok, count |-> r.count, exc |-> r.exc]

InitCache ==
    /\ redis = [k \in CacheKeys |-> Absent]
    /\ keyHistory = [k \in CacheKeys |-> "none"]
    /\ cacheResult = NoCacheResult

\* The keys a client of CacheManager reads and writes in these behaviours
ClientKeys == {<<"user", "1">>, <<"clinic", "list", "a">>, <<"clinic", "list", "b">>}

ClientPatterns == {<<"clinic", "list", "*">>, <<"user", "*">>}

CacheGet(key, raises) ==
    LET r == CacheManager_get(redis, key, raises)
    IN  /\ cacheResult' = CacheAnswer("get", key, raises, r)
        /\ UNCHANGED <<redis, keyHistory>>

CacheGetJson(key, raises) ==
    LET r == CacheManager_get_json(redis, key, raises)
    IN  /\ cacheResult' = CacheAnswer("get_json", key, raises, r)
        /\ UNCHANGED <<redis, keyHistory>>

CacheExists(key, raises) ==
    LET r == CacheManager_exists(redis, key, raises)
    IN  /\ cacheResult' = CacheAnswer("exists", key, raises, r)
        /\ UNCHANGED <<redis, keyHistory>>

CacheSet(key, value, ttl, raises) ==
    LET r == CacheManager_set(redis, key, value, ttl, raises)
    IN  /\ redis' = r.store
        /\ keyHistory' = [keyHistory EXCEPT ![key] = "none"]
        /\ cacheResult' = CacheAnswer("set", key, raises, r)

CacheSetJson(key, value, ttl, raises) ==
    LET r == CacheManager_set_json(redis, key, value, ttl, raises)
    IN  /\ redis' = r.store
        /\ keyHistory' = [keyHistory EXCEPT ![key] = "none"]
        /\ cacheResult' = CacheAnswer("set_json", key, raises, r)

CacheDelete(key, raises) ==
    LET r == CacheManager_delete(redis, key, raises)
    IN  /\ redis' = r.store
        /\ keyHistory' = [keyHistory EXCEPT
                             ![key] = IF r.ok THEN "deleted" ELSE "delete_failed"]
        /\ cacheResult' = CacheAnswer("delete", key, raises, r)

CacheDeletePattern(pattern, raises) ==
    LET r == CacheManager_delete_pattern(redis, pattern, raises)
    IN  /\ redis' = r.store
        /\ cacheResult' = CacheAnswer("delete_pattern", pattern, raises # "none", r)
        /\ UNCHANGED keyHistory

\* The store drops a key whose time to live has run out
RedisExpire(key) ==
    /\ redis[key].val # NULL /\ redis[key].ttl
    /\ redis' = [redis EXCEPT ![key] = Absent]
    /\ keyHistory' = [keyHistory EXCEPT ![key] = "expired"]
    /\ cacheResult' = [NoCacheResult EXCEPT !.op = "expire", !.key = key]

NextCache ==
    \/ \E k \in ClientKeys, f \in BOOLEAN : CacheGet(k, f)
    \/ \E k \in ClientKeys, f \in BOOLEAN : CacheGetJson(k, f)
    \/ \E k \in ClientKeys, f \in BOOLEAN : CacheExists(k, f)
    \/ \E k \in ClientKeys, v \in CacheValues, t \in BOOLEAN, f \in BOOLEAN :
          CacheSet(k, v, t, f)
    \/ \E k \in ClientKeys, v \in CacheValues, t \in BOOLEAN, f \in BOOLEAN :
          CacheSetJson(k, v, t, f)
    \/ \E k \in ClientKeys, f \in BOOLEAN : CacheDelete(k, f)
    \/ \E p \in ClientPatterns, f \in PatternRaises : CacheDeletePattern(p, f)
    \/ \E k \in ClientKeys : RedisExpire(k)

\* ------------------------------------------------------------------------
\* Cached entities: UserService, ClinicService and DoctorService in front
\* of the cache store
\* ------------------------------------------------------------------------

Kinds == {"user", "clinic", "doctor"}

\* _get_user_cache_key, _get_clinic_cache_key, _get_doctor_cache_key
EntityKey(kind) == <<kind, "1">>

\* The pattern of the list keys the services delete for a kind
ListPattern(kind) == <<kind, "list", "*">>

\* Which cache calls of a request the store raises in
Fails == [get : BOOLEAN, set : BOOLEAN, del : BOOLEAN, pat : PatternRaises]

\* The row select(...).where(id == :id) of get_*_by_id finds; clinics are
\* filtered on deleted_at IS NULL
RowVisible(db, kind) == db[kind].ver > 0 /\ ~db[kind].deleted

\* The row UPDATE ... WHERE id = :id matches; a soft-deleted clinic is
\* still a row
RowExists(db, kind) ==
    db[kind].ver > 0 /\ (kind = "user" => ~db[kind].deleted)

\* get_user_by_id / get_clinic_by_id / get_doctor_by_id: the cache first,
\* then the database, whose answer is cached with the kind's TTL
get_by_id(store, db, kind, f) ==
    LET cached == CacheManager_get_json(store, EntityKey(kind), f.get)
    IN  IF cached.val # NULL THEN [store |-> store, ret |-> cached.val]
        ELSE IF ~RowVisible(db, kind) THEN [store |-> store, ret |-> NULL]
        ELSE [store |-> CacheManager_set_json(store, EntityKey(kind),
                                              db[kind].ver, TRUE, f.set).store,
              ret |-> db[kind].ver]

\* Mutant: the single-item key is left alone
Invalidate_ListOnly(store, kind, withList, f) ==
    LET p == CacheManager_delete_pattern(store, ListPattern(kind), f.pat)
    IN  IF withList
        THEN [store |-> p.store,
              failed |-> f.pat = "keys"
                         \/ (f.pat = "delete" /\ RedisKeys(store, ListPattern(kind)) # {})]
        ELSE [store |-> store, failed |-> FALSE]

\* "Invalidate cache": cache.delete(cache_key), then, where the service
\* does so, cache.delete_pattern("<kind>:list:*")
Invalidate(store, kind, withList, f) ==
    LET d == CacheManager_delete(store, EntityKey(kind), f.del)
        p == CacheManager_delete_pattern(d.store, ListPattern(kind), f.pat)
    IN  IF withList
        THEN [store |-> p.store,
              failed |-> \/ ~d.ok
                         \/ f.pat = "keys"
                         \/ (f.pat = "delete" /\ RedisKeys(d.store, ListPattern(kind)) # {})]
        ELSE [store |-> d.store, failed |-> ~d.ok]

NoSvcResult ==
    [op |-> "none", kind |-> "none", mutated |-> FALSE, cacheFailed |-> FALSE,
     wasCached |-> FALSE]

SvcAnswer(op, kind, mutated, cacheFailed) ==
    [op |-> op, kind |-> kind, mutated |-> mutated, cacheFailed |-> cacheFailed,
     wasCached |-> redis[EntityKey(kind)].val # NULL]

\* The row after an UPDATE changed its contents
Touch(db, kind) == [db EXCEPT ![kind].ver = @ + 1]

InitEntity ==
    /\ entityDb = [k \in Kinds |-> [ver |-> 0, deleted |-> FALSE]]
    /\ svcResult = NoSvcResult

\* create_user writes the new user through to the cache; create_clinic and
\* create_doctor delete the list keys
EntityCreate(kind, f) ==
    /\ entityDb[kind].ver = 0
    /\ entityDb' = Touch(entityDb, kind)
    /\ redis' = IF kind = "user"
                THEN CacheManager_set_json(redis, EntityKey(kind), 1, TRUE, f.set).store
                ELSE CacheManager_delete_pattern(redis, ListPattern(kind), f.pat).store
    /\ svcResult' = SvcAnswer("create", kind, TRUE,
                              IF kind = "user" THEN f.set ELSE f.pat = "keys")

\* GET of one user, clinic or doctor
EntityGet(kind, f) ==
    /\ redis' = get_by_id(redis, entityDb, kind, f).store
    /\ svcResult' = SvcAnswer("get", kind, FALSE, FALSE)
    /\ UNCHANGED entityDb

\* update_user (and the other UPDATEs of UserService, which have its shape)
UpdateUser(empty, f) ==
    IF empty
    THEN /\ redis' = get_by_id(redis, entityDb, "user", f).store
         /\ svcResult' = SvcAnswer("update", "user", FALSE, FALSE)
         /\ UNCHANGED entityDb
    ELSE IF ~RowExists(entityDb, "user")
    THEN /\ svcResult' = SvcAnswer("update", "user", FALSE, FALSE)
         /\ UNCHANGED <<entityDb, redis>>
    ELSE LET inv == Invalidate(redis, "user", FALSE, f)
         IN  /\ entityDb["user"].ver < MaxVersion
             /\ entityDb' = Touch(entityDb, "user")
             /\ redis' = inv.store
             /\ svcResult' = SvcAnswer("update", "user", TRUE, inv.failed)

\* update_clinic / update_doctor
UpdateClinicOrDoctor(kind, empty, f) ==
    LET existing == get_by_id(redis, entityDb, kind, f)
        inv == Invalidate(existing.store, kind, TRUE, f)
    IN  IF existing.ret = NULL \/ empty
        THEN /\ redis' = existing.store
             /\ svcResult' = SvcAnswer("update", kind, FALSE, FALSE)
             /\ UNCHANGED entityDb
        ELSE /\ entityDb[kind].ver < MaxVersion
             /\ entityDb' = Touch(entityDb, kind)
             /\ redis' = inv.store
             /\ svcResult' = SvcAnswer("update", kind, TRUE, inv.failed)

\* verify_doctor / unverify_doctor
VerifyDoctor(f) ==
    LET inv == Invalidate(redis, "doctor", FALSE, f)
    IN  /\ RowExists(entityDb, "doctor") => entityDb["doctor"].ver < MaxVersion
        /\ entityDb' = IF RowExists(entityDb, "doctor")
                       THEN Touch(entityDb, "doctor") ELSE entityDb
        /\ redis' = inv.store
        /\ svcResult' = SvcAnswer("verify", "doctor",
                                  RowExists(entityDb, "doctor"), inv.failed)

\* soft_delete_clinic
SoftDeleteClinic(f) ==
    LET inv == Invalidate(redis, "clinic", TRUE, f)
        hit == RowVisible(entityDb, "clinic")
    IN  /\ entityDb' = IF hit THEN [entityDb EXCEPT !["clinic"].deleted = TRUE]
                       ELSE entityDb
        /\ redis' = inv.store
        /\ svcResult' = SvcAnswer("soft_delete", "clinic", hit, inv.failed)

\* delete_user
RemoveUser(f) ==
    LET inv == Invalidate(redis, "user", FALSE, f)
        hit == RowExists(entityDb, "user")
    IN  /\ entityDb' = IF hit THEN [entityDb EXCEPT !["user"].deleted = TRUE]
                       ELSE entityDb
        /\ redis' = inv.store
        /\ svcResult' = SvcAnswer("delete", "user", hit, inv.failed)

\* An entity key runs out of its TTL
EntityKeyExpire(kind) ==
    /\ redis[EntityKey(kind)].val # NULL /\ redis[EntityKey(kind)].ttl
    /\ redis' = [redis EXCEPT ![EntityKey(kind)] = Absent]
    /\ svcResult' = SvcAnswer("expire", kind, FALSE, FALSE)
    /\ UNCHANGED entityDb

NextEntity ==
    /\ UNCHANGED <<keyHistory, cacheResult>>
    /\ \/ \E k \in Kinds, f \in Fails : EntityCreate(k, f)
       \/ \E k \in Kinds, f \in Fails : EntityGet(k, f)
       \/ \E e \in BOOLEAN, f \in Fails : UpdateUser(e, f)
       \/ \E k \in {"clinic", "doctor"}, e \in BOOLEAN, f \in Fails :
             UpdateClinicOrDoctor(k, e, f)
       \/ \E f \in Fails : VerifyDoctor(f)
       \/ \E f \in Fails : SoftDeleteClinic(f)
       \/ \E f \in Fails : RemoveUser(f)
       \/ \E k \in Kinds : EntityKeyExpire(k)

\* ------------------------------------------------------------------------
\* Refresh tokens (AuthService): revocation is the key blacklist:{token} in
\* the cache store
\* ------------------------------------------------------------------------

\* The refresh tokens minted in these behaviours
RefreshTokens == {"t1", "t2"}

BlacklistKey(token) == <<"blacklist", token>>

\* decode_refresh_token: the payload of a token this server signed whose exp
\* has not passed, None otherwise
decode_refresh_token(tokens, token) ==
    IF tokens[token].issued /\ ~tokens[token].expired THEN token ELSE NullText

\* AuthService.refresh_access_token: the status the request ends with
refresh_access_token(store, tokens, token, raises) ==
    IF decode_refresh_token(tokens, token) = NullText THEN 401
    ELSE IF CacheManager_exists(store, BlacklistKey(token), raises).ok THEN 401
    ELSE 200

\* AuthService.revoke_token: the entry is written with a TTL of 365 days and
\* the answer of cache.set is dropped
revoke_token(store, token, raises) ==
    CacheManager_set(store, BlacklistKey(token), 1, TRUE, raises).store

\* create_tokens: the refresh token of the new pair is one that was not
\* minted before, among the followed ones or not
create_tokens(tokens) ==
    {t \in RefreshTokens : ~tokens[t].issued} \cup {"untracked"}

NoAuthResult ==
    [op |-> "none", token |-> NullText, raised |-> FALSE, code |-> 0,
     minted |-> NullText]

\* The token table after a token was minted
Minted(tokens, t) ==
    IF t \in RefreshTokens THEN [tokens EXCEPT ![t].issued = TRUE] ELSE tokens

InitAuth ==
    /\ refreshTokens = [t \in RefreshTokens |->
                          [issued |-> FALSE, expired |-> FALSE, loggedOut |-> FALSE]]
    /\ authResult = NoAuthResult

\* POST /auth/firebase/verify: create_tokens mints a refresh token
Login(token) ==
    /\ token \in create_tokens(refreshTokens)
    /\ refreshTokens' = Minted(refreshTokens, token)
    /\ authResult' = [NoAuthResult EXCEPT !.op = "login", !.minted = token,
                         !.code = 200]
    /\ UNCHANGED redis

\* POST /auth/refresh
RefreshToken(token, raises) ==
    LET code == refresh_access_token(redis, refreshTokens, token, raises)
    IN  /\ \E new \in IF code = 200 THEN create_tokens(refreshTokens)
                                     ELSE {NullText} :
              /\ refreshTokens' = Minted(refreshTokens, new)
              /\ authResult' = [NoAuthResult EXCEPT !.op = "refresh",
                                   !.token = token, !.raised = raises,
                                   !.code = code, !.minted = new]
        /\ UNCHANGED redis

\* POST /auth/logout
Logout(token, raises) ==
    /\ redis' = revoke_token(redis, token, raises)
    /\ refreshTokens' = [refreshTokens EXCEPT ![token].loggedOut = TRUE]
    /\ authResult' = [NoAuthResult EXCEPT !.op = "logout", !.token = token,
                         !.raised = raises, !.code = 204]

\* The exp of a refresh token passes (refresh_token_expire_days, 365 by
\* default, after it was minted)
RefreshTokenExpires(token) ==
    /\ refreshTokens[token].issued /\ ~refreshTokens[token].expired
    /\ refreshTokens' = [refreshTokens EXCEPT ![token].expired = TRUE]
    /\ authResult' = [NoAuthResult EXCEPT !.op = "token_expires", !.token = token]
    /\ UNCHANGED redis

\* The blacklist entry runs out of its TTL of 365 days; the logout that
\* wrote it came after the token was minted, so the token's exp has passed
BlacklistExpires(token) ==
    /\ redis[BlacklistKey(token)].val # NULL
    /\ refreshTokens[token].issued => refreshTokens[token].expired
    /\ redis' = [redis EXCEPT ![BlacklistKey(token)] = Absent]
    /\ authResult' = [NoAuthResult EXCEPT !.op = "blacklist_expires",
                         !.token = token]
    /\ UNCHANGED refreshTokens

NextAuth ==
    /\ UNCHANGED <<keyHistory, cacheResult>>
    /\ \/ \E t \in RefreshTokens \cup {"untracked"} : Login(t)
       \/ \E t \in RefreshTokens, f \in BOOLEAN : RefreshToken(t, f)
       \/ \E t \in RefreshTokens, f \in BOOLEAN : Logout(t, f)
       \/ \E t \in RefreshTokens : RefreshTokenExpires(t)
       \/ \E t \in RefreshTokens : BlacklistExpires(t)

\* ------------------------------------------------------------------------
\* Rate limiter (RateLimiter.check_rate_limit).  A call is a GET followed
\* by a SETEX or an INCR; calls made by different workers on the same key
\* interleave between the two commands.
\* ------------------------------------------------------------------------

Callers == 1..MaxCallers

NoRateKey == [val |-> NULL, ttl |-> FALSE]

\* self.redis.setex(key, window, 1)
RateSetex(k) == [val |-> 1, ttl |-> TRUE]

\* self.redis.incr(key): a missing key counts from 0 and gets no expiry
RateIncr(k) == [k EXCEPT !.val = @ + 1]

NoRateResult == [caller |-> NULL, ret |-> "none", raised |-> FALSE]

\* The window's tally after a call returned
Tally(w, ret, raised) ==
    [allowed |-> IF ret THEN w.allowed + 1 ELSE w.allowed,
     raised |-> w.raised \/ raised]

\* return True / return False
RateReturn(p, ret, raised) ==
    /\ rateCalls' = [rateCalls EXCEPT ![p] = [pc |-> "idle", current |-> NULL]]
    /\ rateWindow' = Tally(rateWindow, ret, raised)
    /\ rateResult' = [caller |-> p, ret |-> IF ret THEN "True" ELSE "False",
                      raised |-> raised]

InitRate ==
    /\ rateKey = NoRateKey
    /\ rateCalls = [p \in Callers |-> [pc |-> "idle", current |-> NULL]]
    /\ rateWindow = [allowed |-> 0, raised |-> FALSE]
    /\ rateResult = NoRateResult

\* current = self.redis.get(key); except Exception: return True
RateGet(p, raises) ==
    /\ rateCalls[p].pc = "idle"
    /\ rateWindow.allowed <= RateLimit + MaxCallers
    /\ IF raises
       THEN RateReturn(p, TRUE, TRUE)
       ELSE /\ rateCalls' = [rateCalls EXCEPT
                                ![p] = [pc |-> "got", current |-> rateKey.val]]
            /\ UNCHANGED <<rateWindow, rateResult>>
    /\ UNCHANGED rateKey

\* if current is None: setex, return True
\* if current_count >= limit: return False
\* incr, return True; except Exception: return True
RateAct(p, raises) ==
    /\ rateCalls[p].pc = "got"
    /\ IF rateCalls[p].current # NULL /\ rateCalls[p].current >= RateLimit
       THEN /\ ~raises
            /\ RateReturn(p, FALSE, FALSE)
            /\ UNCHANGED rateKey
       ELSE IF raises
       THEN /\ RateReturn(p, TRUE, TRUE)
            /\ UNCHANGED rateKey
       ELSE /\ rateKey' = IF rateCalls[p].current = NULL
                          THEN RateSetex(rateKey) ELSE RateIncr(rateKey)
            /\ RateReturn(p, TRUE, FALSE)

\* The key reaches its expiry, `window` seconds after the SETEX: the
\* window is over
RateKeyExpires ==
    /\ rateKey.val # NULL /\ rateKey.ttl
    /\ rateKey' = NoRateKey
    /\ rateWindow' = [allowed |-> 0, raised |-> FALSE]
    /\ rateResult' = NoRateResult
    /\ UNCHANGED rateCalls

NextRate ==
    \/ \E p \in Callers, f \in BOOLEAN : RateGet(p, f)
    \/ \E p \in Callers, f \in BOOLEAN : RateAct(p, f)
    \/ RateKeyExpires

\* ------------------------------------------------------------------------
\* register_token statement by statement.  Each request runs in its own
\* session and transaction (READ COMMITTED): a statement sees the committed
\* rows and the session's own writes, an UPDATE locks the rows it matches
\* until the transaction ends, and a statement that needs a row locked by
\* another transaction waits for it.
\* ------------------------------------------------------------------------

Sessions == 1..MaxSessions

IdleTx ==
    [pc |-> "idle", user_id |-> NULL, fcm_token |-> NULL, platform |-> "none",
     locks |-> {}, deactivated |-> {}, existing |-> NULL, inserted |-> {}]

\* The ids of the rows the first UPDATE matches: it has no is_active
\* condition
DeactivateMatches(rows, uid, tok, plat) ==
    {r.id : r \in {x \in rows : x.user_id = uid /\ x.platform = plat
                                 /\ x.fcm_token # tok}}

\* The row ids locked by the transactions other than p
LockedByOthers(p) == UNION {regTx[q].locks : q \in Sessions \ {p}}

\* The rows the next statement of p has to lock
Needs(p) ==
    LET tx == regTx[p]
    IN  CASE tx.pc = "begin" ->
               DeactivateMatches(push_tokens, tx.user_id, tx.fcm_token, tx.platform)
          [] tx.pc = "selected" /\ tx.existing # NULL -> {tx.existing}
          [] OTHER -> {}

\* p waits for a lock that q holds
WaitsFor(p, q) == p # q /\ Needs(p) \cap regTx[q].locks # {}

\* The committed rows after the writes of a transaction
ApplyTx(rows, tx) ==
    {IF r.id = tx.existing
     THEN [r EXCEPT !.is_active = TRUE, !.platform = tx.platform]
     ELSE IF r.id \in tx.deactivated THEN [r EXCEPT !.is_active = FALSE]
     ELSE r : r \in rows} \cup tx.inserted

InitRegister == regTx = [p \in Sessions |-> IdleTx]

\* POST /notifications/register-token arrives
RegBegin(p, uid, tok, plat) ==
    /\ regTx[p].pc = "idle"
    /\ regTx' = [regTx EXCEPT ![p] = [IdleTx EXCEPT !.pc = "begin",
                     !.user_id = uid, !.fcm_token = tok, !.platform = plat]]
    /\ UNCHANGED tokenVars

\* "Deactivate old tokens for this user on the same platform"
RegDeactivate(p) ==
    /\ regTx[p].pc = "begin"
    /\ Needs(p) \cap LockedByOthers(p) = {}
    /\ regTx' = [regTx EXCEPT ![p].pc = "deactivated",
                              ![p].locks = Needs(p),
                              ![p].deactivated = Needs(p)]
    /\ UNCHANGED tokenVars

\* "Check if token already exists": rows inserted by a transaction that has
\* not committed are not seen
RegSelect(p) ==
    /\ regTx[p].pc = "deactivated"
    /\ LET ex == ExistingToken(push_tokens, regTx[p].user_id, regTx[p].fcm_token)
       IN  regTx' = [regTx EXCEPT ![p].pc = "selected",
                        ![p].existing = IF ex = {} THEN NULL
                                        ELSE (CHOOSE r \in ex : TRUE).id]
    /\ UNCHANGED tokenVars

\* "Update existing token" or "Insert new token", and db.commit()
RegWriteAndCommit(p) ==
    LET tx == regTx[p]
        ins == InsertToken(push_tokens, tx.user_id, tx.fcm_token, tx.platform)
        done == IF tx.existing # NULL THEN tx
                ELSE [tx EXCEPT !.inserted = ins.row]
        failed == tx.existing = NULL /\ ins.err # "ok"
    IN  /\ tx.pc = "selected"
        /\ Needs(p) \cap LockedByOthers(p) = {}
        /\ push_tokens' = IF failed THEN push_tokens ELSE ApplyTx(push_tokens, done)
        /\ tokenResult' =
              [op |-> IF failed THEN ins.err ELSE "register",
               id |-> IF failed THEN NULL
                      ELSE TokenRowId(tx.user_id, tx.fcm_token),
               user |-> tx.user_id, token |-> tx.fcm_token,
               platform |-> tx.platform, existed |-> tx.existing # NULL]
        /\ regTx' = [regTx EXCEPT ![p] = IdleTx]

\* Two transactions wait for each other: the database ends one of them
\* with a deadlock error and its writes are rolled back
RegDeadlock(p) ==
    /\ \E q \in Sessions : WaitsFor(p, q) /\ WaitsFor(q, p)
    /\ regTx' = [regTx EXCEPT ![p] = IdleTx]
    /\ tokenResult' = [NoTokenResult EXCEPT !.op = "DeadlockDetected",
                          !.user = regTx[p].user_id, !.token = regTx[p].fcm_token,
                          !.platform = regTx[p].platform]
    /\ UNCHANGED push_tokens

NextRegister ==
    \/ \E p \in Sessions, u \in UserIds, t \in SendTokenValues, pl \in DevicePlatforms :
          RegBegin(p, u, t, pl)
    \/ \E p \in Sessions : RegDeactivate(p)
    \/ \E p \in Sessions : RegSelect(p)
    \/ \E p \in Sessions : RegWriteAndCommit(p)
    \/ \E p \in Sessions : RegDeadlock(p)

\* ------------------------------------------------------------------------
\* Account deactivation: get_current_user (UserService.get_user_by_id, then
\* the is_active check) in front of every request of user U, and
\* DELETE /users/me (UserService.deactivate_user).  The requests run in
\* separate sessions and interleave at their awaits.
\* ------------------------------------------------------------------------

RequestKinds == {"get_me", "delete_me"}

IdleReq == [pc |-> "idle", kind |-> "none", seen |-> FALSE, late |-> FALSE]

NoDeactResult == [op |-> "none", code |-> 0, late |-> FALSE]

\* The cached copy of a row
CachedCopy(is_active) == IF is_active THEN "active" ELSE "inactive"

\* if not user["is_active"]: raise HTTPException(403); else the endpoint runs
ActiveCheck(is_active) == IF is_active THEN 200 ELSE 403

\* get_current_user returned or raised: DELETE /users/me goes on to
\* deactivate_user, every other request is answered
AfterAuth(p, req, is_active) ==
    IF req.kind = "delete_me" /\ is_active
    THEN /\ authReqs' = [authReqs EXCEPT ![p] = [req EXCEPT !.pc = "authed"]]
         /\ UNCHANGED deactResult
    ELSE /\ authReqs' = [authReqs EXCEPT ![p] = IdleReq]
         /\ deactResult' = [op |-> req.kind, code |-> ActiveCheck(is_active),
                            late |-> req.late]

Raised(raises) == [deactivation EXCEPT !.storeRaised = @ \/ raises]

InitDeact ==
    /\ userRow = [is_active |-> TRUE]
    /\ userKey = "miss"
    /\ authReqs = [p \in Sessions |-> IdleReq]
    /\ deactivation = [returned |-> FALSE, storeRaised |-> FALSE]
    /\ deactResult = NoDeactResult

\* A request of U arrives; get_user_by_id tries the cache
AuthCacheGet(p, kind, raises) ==
    LET req == [IdleReq EXCEPT !.kind = kind, !.late = deactivation.returned]
    IN  /\ authReqs[p].pc = "idle"
        /\ deactivation' = Raised(raises)
        /\ IF raises \/ userKey = "miss"
           THEN /\ authReqs' = [authReqs EXCEPT ![p] = [req EXCEPT !.pc = "missed"]]
                /\ UNCHANGED deactResult
           ELSE AfterAuth(p, req, userKey = "active")
        /\ UNCHANGED <<userRow, userKey>>

\* "Query database"
AuthDbRead(p) ==
    /\ authReqs[p].pc = "missed"
    /\ authReqs' = [authReqs EXCEPT ![p].pc = "read", ![p].seen = userRow.is_active]
    /\ UNCHANGED <<userRow, userKey, deactivation, deactResult>>

\* "Cache the result", then the is_active check
AuthCacheSet(p, raises) ==
    /\ authReqs[p].pc = "read"
    /\ userKey' = IF raises THEN userKey ELSE CachedCopy(authReqs[p].seen)
    /\ deactivation' = Raised(raises)
    /\ AfterAuth(p, authReqs[p], authReqs[p].seen)
    /\ UNCHANGED userRow

\* deactivate_user: update(users).values(is_active=False), db.commit()
DeactivateCommit(p) ==
    /\ authReqs[p].pc = "authed"
    /\ userRow' = [userRow EXCEPT !.is_active = FALSE]
    /\ authReqs' = [authReqs EXCEPT ![p].pc = "committed"]
    /\ UNCHANGED <<userKey, deactivation, deactResult>>

\* "Invalidate cache", and the 204 of DELETE /users/me
DeactivateInvalidate(p, raises) ==
    /\ authReqs[p].pc = "committed"
    /\ userKey' = IF raises THEN userKey ELSE "miss"
    /\ deactivation' = [returned |-> TRUE,
                        storeRaised |-> deactivation.storeRaised \/ raises]
    /\ authReqs' = [authReqs EXCEPT ![p] = IdleReq]
    /\ deactResult' = [op |-> "deactivate", code |-> 204, late |-> authReqs[p].late]
    /\ UNCHANGED userRow

\* The key user:{U} reaches USER_CACHE_TTL
UserKeyExpires ==
    /\ userKey # "miss"
    /\ userKey' = "miss"
    /\ deactResult' = NoDeactResult
    /\ UNCHANGED <<userRow, authReqs, deactivation>>

NextDeact ==
    \/ \E p \in Sessions, k \in RequestKinds, f \in BOOLEAN : AuthCacheGet(p, k, f)
    \/ \E p \in Sessions : AuthDbRead(p)
    \/ \E p \in Sessions, f \in BOOLEAN : AuthCacheSet(p, f)
    \/ \E p \in Sessions : DeactivateCommit(p)
    \/ \E p \in Sessions, f \in BOOLEAN : DeactivateInvalidate(p, f)
    \/ UserKeyExpires

vars ==
    <<roleVars, tokenVars, notifVars, apptVars, cacheVars, entityVars, apiVars,
      assocVars, authVars, rateVars, regVars, deactVars>>

Init ==
    /\ InitRole /\ InitNotif /\ InitAppt /\ InitCache /\ InitEntity /\ InitApi
    /\ InitAssoc /\ InitAuth /\ InitRate /\ InitRegister /\ InitDeact

SpecRole ==
    Init /\ [][NextRole
              /\ UNCHANGED <<tokenVars, notifVars, apptVars, cacheVars, entityVars, apiVars, assocVars, authVars, rateVars, regVars, deactVars>>]_vars

SpecTokens ==
    Init /\ [][NextTokens(TokenValues, DevicePlatforms)
              /\ UNCHANGED <<roleVars, notifVars, apptVars, cacheVars, entityVars, apiVars, assocVars, authVars, rateVars, regVars, deactVars>>]_vars

SpecNotif ==
    Init /\ [][NextNotif /\ UNCHANGED <<roleVars, apptVars, cacheVars, entityVars, apiVars, assocVars, authVars, rateVars, regVars, deactVars>>]_vars

SpecAppt ==
    Init /\ [][NextAppt
              /\ UNCHANGED <<roleVars, tokenVars, notifVars, cacheVars, entityVars, apiVars, assocVars, authVars, rateVars, regVars, deactVars>>]_vars

SpecEntity ==
    Init /\ [][NextEntity
              /\ UNCHANGED <<roleVars, tokenVars, notifVars, apptVars, apiVars, assocVars, authVars, rateVars, regVars, deactVars>>]_vars

SpecNotifApi ==
    Init /\ [][NextNotifApi
              /\ UNCHANGED <<roleVars, apptVars, cacheVars, entityVars, assocVars, authVars, rateVars, regVars, deactVars>>]_vars

SpecAssoc ==
    Init /\ [][NextAssoc
              /\ UNCHANGED <<roleVars, tokenVars, notifVars, apptVars, cacheVars,
                             entityVars, apiVars, authVars, rateVars, regVars, deactVars>>]_vars

SpecAuth ==
    Init /\ [][NextAuth
              /\ UNCHANGED <<roleVars, tokenVars, notifVars, apptVars, entityVars,
                             apiVars, assocVars, rateVars, regVars, deactVars>>]_vars

SpecRate ==
    Init /\ [][NextRate
              /\ UNCHANGED <<roleVars, tokenVars, notifVars, apptVars, cacheVars,
                             entityVars, apiVars, assocVars, authVars, regVars, deactVars>>]_vars

SpecRegister ==
    Init /\ [][NextRegister
              /\ UNCHANGED <<roleVars, notifVars, apptVars, cacheVars, entityVars,
                             apiVars, assocVars, authVars, rateVars, deactVars>>]_vars

SpecDeact ==
    Init /\ [][NextDeact
              /\ UNCHANGED <<roleVars, tokenVars, notifVars, apptVars, cacheVars,
                             entityVars, apiVars, assocVars, authVars, rateVars,
                             regVars>>]_vars

SpecCache ==
    Init /\ [][NextCache
              /\ UNCHANGED <<roleVars, tokenVars, notifVars, apptVars, entityVars, apiVars, assocVars, authVars, rateVars, regVars, deactVars>>]_vars

\* ------------------------------------------------------------------------
\* Properties of the role-record lifecycle
\* ------------------------------------------------------------------------

\* The satellite tables that hold a row for user uid in database db
RoleTablesOf(db, uid) ==
    {r \in Roles :
        \/ r = "patient" /\ uid \in db.patients
        \/ r = "doctor" /\ uid \in db.doctors
        \/ r = "pharmacy" /\ \E s \in db.pharmacy_staff : s.user_id = uid
        \/ r = "admin" /\ uid \in db.admins}

\* Number of satellite rows of user uid, over the four tables
RoleRowCount(db, uid) ==
    Cardinality(RoleTablesOf(db, uid) \ {"pharmacy"})
    + Cardinality({s \in db.pharmacy_staff : s.user_id = uid})

\* C1: every user has at most one role-satellite row over patients, doctors,
\* pharmacy_staff and admins, and that row is in the table of the user's
\* current role.
C1_AtMostOneMatchingRoleRecord ==
    \A u \in DOMAIN users :
        /\ RoleRowCount(RoleDb, u) <= 1
        /\ RoleTablesOf(RoleDb, u) \subseteq {users[u]}

\* C1 witness: a role change has been carried out and the user's only
\* satellite row is the one of the new role.
C1_Witness ==
    /\ roleResult.op = "update_role"
    /\ roleResult.res = "ok"
    /\ roleResult.uid \in DOMAIN users
    /\ users[roleResult.uid] = roleResult.role
    /\ RoleTablesOf(RoleDb, roleResult.uid) = {roleResult.role}

RoleErrors == {"IntegrityError", "ProgrammingError"}

\* The users row of u is created or its role is changed by the step
UserRowChanged(u) ==
    /\ u \in DOMAIN users'
    /\ (u \notin DOMAIN users \/ users[u] # users'[u])

\* C2: a user creation or role change whose satellite insert raises leaves
\* the database as it was, and every step that creates a user or changes a
\* role also leaves exactly the satellite row of the new role.
C2_RoleChangeIsAtomic ==
    [][/\ (roleResult'.op \in {"create", "update_role"}
           /\ roleResult'.res \in RoleErrors) => RoleDb' = RoleDb
       /\ \A u \in UserIds :
            UserRowChanged(u) => RoleTablesOf(RoleDb', u) = {users'[u]}]_vars

\* C2 witness: a user creation whose satellite insert violated a constraint
\* (pharmacy_staff.pharmacy_id NOT NULL) has been rolled back.
C2_Witness ==
    /\ roleResult.op = "create"
    /\ roleResult.role = "pharmacy"
    /\ roleResult.res = "IntegrityError"
    /\ pharmacy_staff = {}
    /\ \A u \in DOMAIN users : users[u] # "pharmacy"

\* ------------------------------------------------------------------------
\* Properties of the push tokens and of the notification fan-out
\* ------------------------------------------------------------------------

TokenRow(rows, id) == CHOOSE r \in rows : r.id = id

\* C3: registering a token for (user, platform) leaves every other token of
\* that user on that platform inactive, and every token of the user that was
\* active on another platform is still active.
C3_RegisterDeactivatesSamePlatformOnly ==
    [][tokenResult'.op = "register" =>
        LET new == TokenRow(push_tokens', tokenResult'.id)
        IN  /\ new.is_active
            /\ \A r \in push_tokens' :
                  (r.user_id = new.user_id /\ r.platform = new.platform
                   /\ r.id # new.id) => ~r.is_active
            /\ \A r \in push_tokens :
                  (r.user_id = new.user_id /\ r.platform # new.platform
                   /\ r.is_active)
                  => \E r2 \in push_tokens' : r2.id = r.id /\ r2.is_active]_vars

\* C3 witness: after a registration the user has a deactivated token on the
\* platform of the new one and an active token on another platform.
C3_Witness ==
    /\ tokenResult.op = "register"
    /\ LET new == TokenRow(push_tokens, tokenResult.id)
       IN  /\ \E r \in push_tokens :
                 r.user_id = new.user_id /\ r.platform = new.platform
                 /\ r.id # new.id /\ ~r.is_active
           /\ \E r \in push_tokens :
                 r.user_id = new.user_id /\ r.platform # new.platform
                 /\ r.is_active

\* The delivery rows of notification nid in the table rows
DeliveriesOf(rows, nid) == {d \in rows : d.notification_id = nid}

\* The ids of the tokens of user uid that are active in the table rows
ActiveTokenIds(rows, uid) == {r.id : r \in {x \in rows : x.user_id = uid /\ x.is_active}}

\* send_to_user is called: the step that creates notification nid
SendStarts(nid) == nid \notin DOMAIN sends /\ nid \in DOMAIN sends'

\* C4: a send to a user with no active token leaves the notification failed,
\* returns (0, 0) and creates no delivery row for it.
C4_NoTokensFailsWithoutDeliveries ==
    [][\A nid \in 1..MaxNotifications :
        (SendStarts(nid)
         /\ ActiveTokenIds(push_tokens, notifications'[nid].user_id) = {})
        => /\ notifications'[nid].status = "failed"
           /\ sends'[nid].pc = "done"
           /\ sends'[nid].ret = <<0, 0>>
           /\ DeliveriesOf(notification_deliveries', nid) = {}]_vars

\* C4 witness: a send to a user whose only tokens are inactive has returned.
C4_Witness ==
    \E nid \in DOMAIN sends :
        /\ sends[nid].pc = "done"
        /\ DOMAIN sends[nid].token_map = {}
        /\ notifications[nid].status = "failed"
        /\ \E r \in push_tokens : r.user_id = notifications[nid].user_id

\* C5: a send to a user with k >= 1 active tokens creates exactly k delivery
\* rows for the notification, one for each of these tokens and for no other.
C5_OneDeliveryPerActiveToken ==
    [][\A nid \in 1..MaxNotifications :
        (SendStarts(nid)
         /\ ActiveTokenIds(push_tokens, notifications'[nid].user_id) # {})
        => LET ds == DeliveriesOf(notification_deliveries', nid)
               act == ActiveTokenIds(push_tokens, notifications'[nid].user_id)
           IN  /\ {d.push_token_id : d \in ds} = act
               /\ Cardinality(ds) = Cardinality(act)]_vars

\* C5 witness: a notification has two delivery rows while the user also has
\* an inactive token or another user has an active one.
C5_Witness ==
    \E nid \in DOMAIN sends :
        /\ Cardinality(DeliveriesOf(notification_deliveries, nid)) = 2
        /\ \E r \in push_tokens : r.user_id # notifications[nid].user_id /\ r.is_active

\* C6: a send to a user with at least one active token that the messaging
\* API answered without raising ends with the notification delivered when at
\* least one token succeeded and failed when none did.
C6_FinalStatusFromSuccessCount ==
    \A nid \in DOMAIN sends :
        (sends[nid].pc = "done" /\ DOMAIN sends[nid].token_map # {}
         /\ ~sends[nid].fcm.raised)
        => notifications[nid].status =
              IF sends[nid].fcm.success_count > 0 THEN "delivered" ELSE "failed"

\* C6 witness: a send to two tokens of which exactly one succeeded is done.
C6_Witness ==
    \E nid \in DOMAIN sends :
        /\ sends[nid].pc = "done"
        /\ Cardinality(DOMAIN sends[nid].token_map) = 2
        /\ ~sends[nid].fcm.raised
        /\ sends[nid].fcm.success_count = 1
        /\ notifications[nid].status = "delivered"

\* C7: when the messaging API raises during a send, the notification and
\* all its delivery rows end failed with the exception text as the reason.
C7_FcmExceptionMarksAllFailed ==
    \A nid \in DOMAIN sends :
        (sends[nid].pc = "done" /\ sends[nid].fcm.raised)
        => /\ notifications[nid].status = "failed"
           /\ notifications[nid].failure_reason = sends[nid].fcm.text
           /\ \A d \in DeliveriesOf(notification_deliveries, nid) :
                 /\ d.delivery_status = "failed"
                 /\ d.failure_reason = sends[nid].fcm.text

\* ------------------------------------------------------------------------
\* Properties of the appointments
\* ------------------------------------------------------------------------

\* The requests that name one appointment
ApptOps == {"get", "update", "update_status", "soft_delete", "hard_delete"}

\* The step serves a request of a user who is not the patient of the
\* appointment row it names
ByNonOwner ==
    /\ apptResult'.op \in ApptOps
    /\ apptResult'.id \in DOMAIN appointments
    /\ apptResult'.user # appointments[apptResult'.id].patient_id

\* C8 (as stated): for every appointment row and every user who is not its
\* patient, fetch, update, status update and soft or hard delete fail with
\* access-denied and leave the appointment unchanged.
C8_NonOwnerAlwaysForbidden ==
    [][ByNonOwner => (apptResult'.res = "Forbidden" /\ appointments' = appointments)]_vars

\* C8 (amended): for every appointment row and every user who is not its
\* patient, fetch, update, status update and soft or hard delete fail and
\* leave the appointment unchanged; the failure is access-denied when the
\* appointment is not soft-deleted and not-found when it is.
C8_NonOwnerForbiddenUnlessDeleted ==
    [][ByNonOwner =>
        /\ apptResult'.res =
              IF appointments[apptResult'.id].deleted_at = NULL
              THEN "Forbidden" ELSE "NotFound"
        /\ appointments' = appointments]_vars

\* C8 witness: a hard delete by a user who is not the patient has been
\* refused with access-denied and the row is still there.
C8_Witness ==
    /\ apptResult.op = "hard_delete"
    /\ apptResult.res = "Forbidden"
    /\ apptResult.id \in DOMAIN appointments
    /\ appointments[apptResult.id].patient_id # apptResult.user

\* C9: a soft-deleted appointment is not found by its patient's direct fetch
\* and is in none of the patient's list queries, and it stays soft-deleted;
\* an appointment that was hard-deleted has no row, now and later.
C9_DeletedAppointmentsStayHidden ==
    /\ [](\A a \in DOMAIN appointments :
            appointments[a].deleted_at # NULL =>
               /\ get_appointment(appointments, a, appointments[a].patient_id) = "NotFound"
               /\ \A s \in AppointmentStatus \cup {"unset"} :
                     a \notin list_appointments(appointments, appointments[a].patient_id, s))
    /\ [][\A a \in ApptIds :
            /\ (a \in DOMAIN appointments /\ appointments[a].deleted_at # NULL)
               => (a \in DOMAIN appointments' /\ appointments'[a].deleted_at # NULL)
            /\ (a < nextApptId /\ a \notin DOMAIN appointments)
               => a \notin DOMAIN appointments']_vars

\* C9 witness: the patient's fetch of a soft-deleted appointment has been
\* answered not-found.
C9_Witness ==
    /\ apptResult.op = "get"
    /\ apptResult.res = "NotFound"
    /\ apptResult.id \in DOMAIN appointments
    /\ appointments[apptResult.id].deleted_at # NULL
    /\ appointments[apptResult.id].patient_id = apptResult.user

\* C10: after an operation that updates an appointment's status to
\* cancelled, the appointment's cancelled_at is not null.
C10_CancelledHasTimestamp ==
    [][(/\ apptResult'.op \in {"update", "update_status"}
        /\ apptResult'.res = "ok"
        /\ apptResult'.status = "cancelled")
       => appointments'[apptResult'.id].cancelled_at # NULL]_vars

\* C11: a status update to a value other than cancelled leaves the
\* appointment's cancellation timestamp exactly as it was before the update.
C11_OtherStatusKeepsCancelledAt ==
    [][(/\ apptResult'.op = "update_status"
        /\ apptResult'.res = "ok"
        /\ apptResult'.status # "cancelled")
       => appointments'[apptResult'.id].cancelled_at
            = appointments[apptResult'.id].cancelled_at]_vars

\* A cancelled appointment was given another status and kept its timestamp
C11_Witness ==
    /\ apptResult.op = "update_status" /\ apptResult.res = "ok"
    /\ apptResult.status = "confirmed"
    /\ appointments[apptResult.id].status = "confirmed"
    /\ appointments[apptResult.id].cancelled_at # NULL

\* The stored status of an appointment that exists before and after a step
StatusChanged(a) ==
    /\ a \in DOMAIN appointments /\ a \in DOMAIN appointments'
    /\ appointments'[a].status # appointments[a].status

\* C12: whenever an operation leaves an appointment's stored status
\* different from the value stored before it, a status-change notification
\* send to the owning patient is attempted.
C12_StatusChangeIsNotified ==
    [][\A a \in ApptIds :
          StatusChanged(a) =>
              /\ apptResult'.notified = "appointment_status"
              /\ apptResult'.user = appointments[a].patient_id]_vars

\* C13: if the notification send attempted during create-appointment or
\* status update raises, the caller still receives the appointment result
\* and the appointment row stays as it was written.
C13_SendFailureIsSwallowed ==
    [][apptResult'.send = "raised" =>
          /\ apptResult'.res = "ok"
          /\ apptResult'.id \in DOMAIN appointments'
          /\ appointments'[apptResult'.id].status = apptResult'.status
          /\ appointments'[apptResult'.id].patient_id = apptResult'.user
          /\ appointments'[apptResult'.id].updated_at = now'
          /\ appointments' # appointments]_vars

\* A cancelling status update whose send raised has been answered and stored
C13_Witness ==
    /\ apptResult.op = "update_status" /\ apptResult.send = "raised"
    /\ apptResult.res = "ok" /\ apptResult.status = "cancelled"
    /\ appointments[apptResult.id].status = "cancelled"
    /\ appointments[apptResult.id].cancelled_at # NULL

\* ------------------------------------------------------------------------
\* Cache store
\* ------------------------------------------------------------------------

\* The keys of a kind an invalidation is about: its single-item key and its
\* list keys
KeysOfKind(kind) ==
    {k \in CacheKeys : k = EntityKey(kind) \/ GlobMatch(ListPattern(kind), k)}

C15_GetAfterDeleteIsMiss ==
    (/\ cacheResult.op \in {"get", "get_json"}
     /\ keyHistory[cacheResult.key] \in {"deleted", "delete_failed", "expired"})
    => cacheResult.val = NULL

\* C15 as the code has it: a get of a key issued after a delete of that key
\* that returned True, or after its expiry, with no set of the key in
\* between, is a miss; a delete during which the store raised returns False
\* and leaves the key where it was.
C15_GetAfterAcknowledgedDeleteIsMiss ==
    /\ (/\ cacheResult.op \in {"get", "get_json"}
        /\ keyHistory[cacheResult.key] \in {"deleted", "expired"})
       => cacheResult.val = NULL
    /\ (cacheResult.op = "delete" /\ cacheResult.raised)
       => ~cacheResult.ok /\ keyHistory[cacheResult.key] = "delete_failed"
    /\ \A k \in ClientKeys :
          keyHistory[k] \in {"deleted", "expired"} => redis[k].val = NULL

\* A healthy get of a key that was set and then deleted
C15_Witness ==
    /\ cacheResult.op = "get" /\ ~cacheResult.raised
    /\ keyHistory[cacheResult.key] = "deleted"
    /\ cacheResult.val = NULL
    /\ \E k \in ClientKeys : keyHistory[k] = "expired"

\* C16: every cache operation fails open: when the store raises, the
\* operation returns a miss / False / zero, no exception reaches the caller
\* and the store is as it was.
C16_CacheFailsOpen ==
    [][cacheResult'.raised =>
          /\ cacheResult'.exc = "none"
          /\ cacheResult'.val = NULL
          /\ ~cacheResult'.ok
          /\ cacheResult'.count = 0
          /\ redis' = redis]_vars

\* The store raised inside exists while the key was there
C16_Witness ==
    /\ cacheResult.op = "exists" /\ cacheResult.raised
    /\ redis[cacheResult.key].val # NULL
    /\ ~cacheResult.ok /\ cacheResult.exc = "none"

\* ------------------------------------------------------------------------
\* Notification endpoints
\* ------------------------------------------------------------------------

\* C18: a request to /notifications/admin-send whose X-Admin-Secret header
\* does not equal the configured secret gets status 401 and creates no
\* notification row and no delivery row.
C18_WrongSecretIsRejected ==
    [][(/\ apiResult'.op = "admin_send"
        /\ apiResult'.secret # admin_notification_secret)
       => /\ apiResult'.code = 401
          /\ notifications' = notifications
          /\ notification_deliveries' = notification_deliveries
          /\ nextNotifId' = nextNotifId]_vars

\* A wrong secret was answered 401 while the addressed user has a device
C18_Witness ==
    /\ apiResult.op = "admin_send" /\ apiResult.secret = "guess"
    /\ apiResult.code = 401
    /\ \E t \in push_tokens : t.is_active
    /\ notifications = <<>>

\* The request of the step is aimed at a notification of another user
AimedAtAnothersNotification ==
    /\ apiResult'.op \in {"detail", "mark_read", "delete"}
    /\ apiResult'.role # "admin"
    /\ apiResult'.id \in DOMAIN notifications
    /\ notifications[apiResult'.id].user_id # apiResult'.caller

\* C20: a non-admin user's view, mark-as-read or delete aimed at another
\* user's notification returns not-found and leaves that notification and
\* its delivery rows unchanged.
C20_OthersNotificationsAreNotFound ==
    [][AimedAtAnothersNotification =>
          /\ apiResult'.code = 404
          /\ notifications' = notifications
          /\ notification_deliveries' = notification_deliveries]_vars

\* A non-admin's delete of another user's notification, which has a
\* delivery row, was answered 404
C20_Witness ==
    /\ apiResult.op = "delete" /\ apiResult.role = "patient"
    /\ apiResult.code = 404
    /\ apiResult.id \in DOMAIN notifications
    /\ notifications[apiResult.id].user_id # apiResult.caller
    /\ \E d \in notification_deliveries : d.notification_id = apiResult.id

\* ------------------------------------------------------------------------
\* Doctor-clinic associations
\* ------------------------------------------------------------------------

\* The currently active associations of a pair: end_date null, status active
ActiveAssociations(rows, d, c) ==
    {r \in rows : /\ r.doctor_id = d /\ r.clinic_id = c
                  /\ r.end_date = NULL /\ r.status = "active"}

\* C19: after any sequence of add, update, end and remove operations each
\* (doctor, clinic) pair has at most one currently active association, and
\* adding an association for a pair that already has an active one is
\* rejected.
C19_OneActiveAssociationPerPair ==
    [][/\ \A d \in DoctorIds, c \in ClinicIds :
             Cardinality(ActiveAssociations(doctor_clinics', d, c)) <= 1
       /\ (/\ assocResult'.op = "add"
           /\ ActiveAssociations(doctor_clinics, assocResult'.doctor_id,
                                  assocResult'.clinic_id) # {})
          => /\ assocResult'.res = "IntegrityError"
             /\ doctor_clinics' = doctor_clinics]_vars

\* An add for a pair with an active association was rejected, after an
\* earlier association of the pair had been ended
C19_Witness ==
    /\ assocResult.op = "add" /\ assocResult.res = "IntegrityError"
    /\ ActiveAssociations(doctor_clinics, assocResult.doctor_id,
                           assocResult.clinic_id) # {}
    /\ \E r \in doctor_clinics :
          /\ r.doctor_id = assocResult.doctor_id
          /\ r.clinic_id = assocResult.clinic_id
          /\ r.end_date # NULL

\* ------------------------------------------------------------------------
\* Refresh tokens
\* ------------------------------------------------------------------------

\* C17: after logout with refresh token T has returned, every later
\* refresh request that presents T is rejected (401) and issues no new
\* tokens, for as long as T would otherwise be valid.
C17_LoggedOutTokenIsRejected ==
    [][(/\ authResult'.op = "refresh"
        /\ refreshTokens[authResult'.token].loggedOut
        /\ decode_refresh_token(refreshTokens, authResult'.token) # NullText)
       => /\ authResult'.code = 401
          /\ authResult'.minted = NullText
          /\ refreshTokens' = refreshTokens]_vars

\* ------------------------------------------------------------------------
\* Re-registration of a push token
\* ------------------------------------------------------------------------

\* The tokens of a user that are active on a platform
ActiveOn(rows, uid, plat) ==
    {r \in rows : r.user_id = uid /\ r.platform = plat /\ r.is_active}

\* C21: registering a token value the user has already registered creates
\* no new row: the existing row is returned with the same id and is active,
\* and afterwards exactly one active token exists for that (user, platform).
C21_ReRegisterReturnsExistingRow ==
    [][(/\ tokenResult'.op \in {"register", "IntegrityError"}
        /\ ExistingToken(push_tokens, tokenResult'.user, tokenResult'.token) # {})
       => LET old == CHOOSE r \in ExistingToken(push_tokens, tokenResult'.user,
                                                 tokenResult'.token) : TRUE
              new == TokenRow(push_tokens', old.id)
          IN  /\ tokenResult'.op = "register"
              /\ tokenResult'.id = old.id
              /\ {r.id : r \in push_tokens'} = {r.id : r \in push_tokens}
              /\ Cardinality(push_tokens') = Cardinality(push_tokens)
              /\ new.is_active
              /\ ActiveOn(push_tokens', tokenResult'.user, tokenResult'.platform)
                    = {new}]_vars

\* A token the user already had was registered again and is active on the
\* platform of the request; the user's other token on that platform is
\* inactive
C21_Witness ==
    /\ tokenResult.op = "register" /\ tokenResult.existed
    /\ \E r \in push_tokens :
          /\ r.id = tokenResult.id /\ r.is_active
          /\ r.platform = tokenResult.platform
    /\ \E r \in push_tokens :
          /\ r.user_id = tokenResult.user /\ r.id # tokenResult.id
          /\ r.platform = tokenResult.platform /\ ~r.is_active

\* ------------------------------------------------------------------------
\* Role change to the same role
\* ------------------------------------------------------------------------

\* C22: requesting a role change to the role the user already has is a
\* no-op: no satellite row is deleted, inserted or modified and the user's
\* role value is unchanged.
C22_SameRoleIsNoOp ==
    [][(/\ roleResult'.op = "update_role"
        /\ roleResult'.uid \in DOMAIN users
        /\ users[roleResult'.uid] = roleResult'.role)
       => /\ RoleDb' = RoleDb
          /\ roleResult'.res \in {"unchanged", "ok"}]_vars

\* A user whose role had been changed before was asked to take the role
\* the user has, and the request returned the user
C22_Witness ==
    /\ roleResult.op = "update_role" /\ roleResult.res = "unchanged"
    /\ roleResult.uid \in DOMAIN users
    /\ users[roleResult.uid] = roleResult.role
    /\ roleRowSerial[roleResult.uid] > 1
    /\ RoleTablesOf(RoleDb, roleResult.uid) = {roleResult.role}

\* ------------------------------------------------------------------------
\* Appointment status values
\* ------------------------------------------------------------------------

\* C23: for an existing, non-deleted appointment in any status, a status
\* update by the owning patient to any of the six enumerated values
\* succeeds and stores that value; no transition is refused because of the
\* current status.
C23_AnyStatusCanBeWritten ==
    [][(/\ apptResult'.op = "update_status"
        /\ VisibleAppointment(appointments, apptResult'.id)
        /\ appointments[apptResult'.id].patient_id = apptResult'.user)
       => /\ apptResult'.res = "ok"
          /\ appointments'[apptResult'.id].status = apptResult'.status]_vars

\* C24: creating an appointment always stores and returns status
\* scheduled, whatever the request contains.
C24_CreateYieldsScheduled ==
    [][apptResult'.op = "create"
       => /\ apptResult'.res = "ok"
          /\ apptResult'.status = "scheduled"
          /\ appointments'[apptResult'.id].status = "scheduled"]_vars

\* An appointment was created by a request that carried status cancelled
\* and whose notification send raised
C24_Witness ==
    /\ apptResult.op = "create" /\ apptResult.requested = "cancelled"
    /\ apptResult.send = "raised"
    /\ appointments[apptResult.id].status = "scheduled"
    /\ appointments[apptResult.id].cancelled_at = NULL

\* C28: in every reachable state of an appointment, cancelled_at is
\* non-null exactly when the stored status is cancelled, after any sequence
\* of create, update and status-update operations.
C28_CancelledAtIffCancelled ==
    \A a \in DOMAIN appointments :
        (appointments[a].cancelled_at # NULL) <=> (appointments[a].status = "cancelled")

\* ------------------------------------------------------------------------
\* Notification status and delivery rows
\* ------------------------------------------------------------------------

\* C27: in every state reached after a send completes, a notification
\* whose status is failed has no delivery row with status sent or
\* delivered.
C27_FailedHasNoSentDelivery ==
    \A n \in DOMAIN notifications :
        (/\ n \in DOMAIN sends /\ sends[n].pc = "done"
         /\ notifications[n].status = "failed")
        => \A d \in DeliveriesOf(notification_deliveries, n) :
              d.delivery_status \notin {"sent", "delivered"}

\* C29: once a notification has been marked read, its status stays read in
\* every later state; in particular a send for that notification that is
\* still in progress when it is marked read does not overwrite the status
\* afterwards.
C29_ReadStaysRead ==
    [][\A n \in DOMAIN notifications :
          (notifications[n].status = "read" /\ n \in DOMAIN notifications')
          => notifications'[n].status = "read"]_vars

\* ------------------------------------------------------------------------
\* Rate limiter
\* ------------------------------------------------------------------------

\* C30: for any key, within one window of `window` seconds at most `limit`
\* calls to check_rate_limit return True and all further calls in that
\* window return False, including when calls for the same key run
\* concurrently, as long as the store raises no error.
C30_AtMostLimitPerWindow ==
    ~rateWindow.raised => rateWindow.allowed <= RateLimit

\* ------------------------------------------------------------------------
\* Concurrent registrations
\* ------------------------------------------------------------------------

\* C25: in every reachable state each (user, platform) pair has at most one
\* active push token, including when two registrations for the same
\* (user, platform) with different token values run concurrently.
C25_OneActiveTokenPerPlatform ==
    \A u \in UserIds, pl \in Platforms :
        Cardinality(ActiveOn(push_tokens, u, pl)) <= 1

\* ------------------------------------------------------------------------
\* Account deactivation
\* ------------------------------------------------------------------------

\* C26: once deactivation of user U has committed and returned, every
\* later authenticated request by U is rejected with 403: no cached copy of
\* U with is_active true survives the deactivation, including when a cached
\* read of U (cache miss, database read, cache set) runs concurrently with
\* the deactivation (database commit, cache delete).  Stated for the
\* behaviours in which the cache store has not raised.
C26_DeactivatedUserIsRejected ==
    [][(/\ deactResult' # deactResult
        /\ deactResult'.op \in RequestKinds
        /\ deactResult'.late
        /\ ~deactivation'.storeRaised)
       => deactResult'.code = 403]_vars

====
